---------------------------- MODULE Spec2Model ----------------------------
(* Model of the linuxc networking facade: the raw I/O retry helpers        *)
(* (src/src/socket.rs), the Netlink / Rtnetlink codec and the gateway      *)
(* resolution (src/src/netlink.rs), pinned to x86_64 Linux (little-endian).*)
EXTENDS Integers, Sequences, FiniteSets, TLC

VARIABLES
    \* ---- validity predicates on one buffer (nlmsg_ok / rta_ok)
    okKind,     \* "nl" | "rta" | "idle": which header the buffer starts with
    okDecl,     \* the len the header was built with
    okBuf,      \* the remaining buffer handed to the predicate
    okRes,      \* <<>> before the call, then <<what the predicate returned>>
    okPay,      \* <<>>, then <<what payload_len returned for a header of len okDecl>>
    \* ---- one run of a *_all helper against a scripted transport
    ioFn,       \* "recv_all" | "recvfrom_all" | "send_all" | "sendto_all" | "idle"
    ioLen,      \* buf.len() / msg.len()
    ioScript,   \* outcomes the transport still has to give
    ioHist,     \* what the underlying call returned, call by call
    ioCnt,      \* the loop's running count
    ioBuf,      \* recv: the buffer; send: the bytes the kernel accepted
    ioRes,      \* [kind |-> "running"] | [kind |-> "ok", n] | [kind |-> "err", e]
    \* ---- one call of get_gateway_ipv4_by_ifname
    pc,         \* the step about to run
    trace,      \* the steps executed so far
    ifindex,    \* the resolved interface index
    request,    \* the bytes handed to send_all
    resp,       \* the bytes recv_all left in buf[..rev_len]
    respFrames, \* the frames the kernel put in the response
    respWf,     \* TRUE when resp is exactly those frames, whole and unaltered
    sysErr,     \* <<>>, or <<[step, e]>>: the step whose call failed, its errno
    nlmsgs,     \* parse_nlm_raw's result
    rtmsgs_raw, \* parse_rtm_raw's result
    rtmsgs_resp,\* parse_rtm_resp's result
    gwRes,      \* the call's result
    fdlog,      \* the descriptor events of the call: socket, use, close
    \* ---- one socket address through as_ptr / address_len / from_raw_parts
    saV,        \* <<>>, or <<v>>: the SockAddr value the bytes come from
    saBuf,      \* the bytes at the sockaddr pointer
    saLen,      \* the addrlen handed over with the pointer
    saRes,      \* <<>> before the call, then <<what from_raw_parts gave>>
    \* ---- one network-order scalar (be.rs)
    beHost,     \* "le" | "be": the host's byte order
    beX,        \* the argument, as its digits base 256, most significant first
    beCtor,     \* "none", then the constructor that ran
    beMem,      \* the bytes in memory of the stored field self.0
    beOut,      \* <<>>, or <<[op, v]>>: the last conversion out and its result
    \* ---- one SignalSet (signal.rs)
    sigSet,     \* the bytes of the sigset_t in self.0 (<<>> when idle)
    sigOut      \* <<>>, or <<what is_empty returned for sigSet>>

okVars == <<okKind, okDecl, okBuf, okRes, okPay>>
ioVars == <<ioFn, ioLen, ioScript, ioHist, ioCnt, ioBuf, ioRes>>
gwVars == <<pc, trace, ifindex, request, resp, respFrames, respWf, sysErr,
            nlmsgs, rtmsgs_raw, rtmsgs_resp, gwRes, fdlog>>
saVars == <<saV, saBuf, saLen, saRes>>
beVars == <<beHost, beX, beCtor, beMem, beOut>>
sigVars == <<sigSet, sigOut>>
vars == <<okVars, ioVars, gwVars, saVars, beVars, sigVars>>

----------------------------------------------------------------------------
(* Bytes, native (little-endian) integers                                   *)

Min(a, b) == IF a < b THEN a ELSE b

Zeros(n) == [i \in 1..n |-> 0]

Take(s, n) == SubSeq(s, 1, Min(n, Len(s)))

Drop(s, n) == SubSeq(s, n + 1, Len(s))

LE16(n) == <<n % 256, (n \div 256) % 256>>

LE32(n) == <<n % 256, (n \div 256) % 256, (n \div 65536) % 256,
             (n \div 16777216) % 256>>

\* reads at the start of b; b holds at least the bytes read
U16(b) == b[1] + 256 * b[2]

\* a u32 of 2^31 or more is held as 2^31 - 1: the model's integers are 32-bit
\* signed, and it is only ever compared with lengths far below that
U32(b) ==
    IF b[4] >= 128 THEN 2147483647
    ELSE b[1] + 256 * b[2] + 65536 * b[3] + 16777216 * b[4]

I32(b) ==
    b[1] + 256 * b[2] + 65536 * b[3]
    + 16777216 * (IF b[4] >= 128 THEN b[4] - 256 ELSE b[4])

----------------------------------------------------------------------------
(* Structure sizes and alignment                                            *)

NLMSG_ALIGNTO == 4

RTA_ALIGNTO == 4

NlMsgHdrSize == 16

RtMsgHdrSize == 12

RtAttrHdrSize == 4

\* (len + NLMSG_ALIGNTO - 1) & !(NLMSG_ALIGNTO - 1)
nlmsg_align(len) == ((len + NLMSG_ALIGNTO - 1) \div NLMSG_ALIGNTO) * NLMSG_ALIGNTO

nlmsg_length(size) == nlmsg_align(NlMsgHdrSize) + size

rta_len(size) == RtAttrHdrSize + size

----------------------------------------------------------------------------
(* The aligned buffer cursor: a slice and a position in it                  *)

from_slice(b) == [data |-> b, pos |-> 0]

rem_len(c) == IF c.pos >= Len(c.data) THEN 0 ELSE Len(c.data) - c.pos

\* the bytes from the cursor on
Rest(c) == Drop(c.data, c.pos)

\* consume::<T>(): hand out the place at the cursor, advance by size_of::<T>()
consume(c, size) == [c EXCEPT !.pos = c.pos + size]

consume_bytes_unaligned(c, n) == [c EXCEPT !.pos = c.pos + n]

\* consume_bytes(n): hand out n bytes, advance by n rounded up to the alignment
consume_bytes(c, n) == [c EXCEPT !.pos = c.pos + nlmsg_align(n)]

----------------------------------------------------------------------------
(* Validity predicates                                                      *)

nlmsg_ok_lax(buf) ==
    LET len == rem_len(buf) IN
    IF len >= NlMsgHdrSize
    THEN LET nlh_len == U32(Rest(buf)) IN nlh_len >= NlMsgHdrSize
    ELSE FALSE

nlmsg_ok(buf) ==
    LET len == rem_len(buf) IN
    IF len >= NlMsgHdrSize
    THEN LET nlh_len == U32(Rest(buf)) IN
         nlh_len >= NlMsgHdrSize /\ nlh_len <= len
    ELSE FALSE

rta_ok_lax(buf) ==
    LET len == rem_len(buf) IN
    IF len >= RtAttrHdrSize
    THEN LET rta_length == U16(Rest(buf)) IN rta_length >= RtAttrHdrSize
    ELSE FALSE

rta_ok(buf) ==
    LET len == rem_len(buf) IN
    IF len >= RtAttrHdrSize
    THEN LET rta_length == U16(Rest(buf)) IN
         rta_length >= RtAttrHdrSize /\ rta_length <= len
    ELSE FALSE

payload_len_unguarded(len) == len - NlMsgHdrSize

NlMsgHdr_payload_len(len) ==
    IF len < NlMsgHdrSize THEN 0 ELSE len - NlMsgHdrSize

RtAttrHdr_payload_len(len) ==
    IF len < RtAttrHdrSize THEN 0 ELSE len - RtAttrHdrSize

----------------------------------------------------------------------------
(* The wire format, as the kernel writes it and as the request is built     *)

\* a Netlink header with the given len and type, as the kernel lays it out
EncNlMsgHdr(len, ty, flags) ==
    LE32(len) \o LE16(ty) \o LE16(flags) \o LE32(0) \o LE32(0)

\* an attribute header
EncRtAttrHdr(len, ty) == LE16(len) \o LE16(ty)

\* a route header: family, dst_len, src_len, tos, table (main), protocol
\* (boot), scope (universe), type (unicast), flags
EncRtMsgHdr(family, table, protocol, ty) ==
    <<family, 0, 0, 0, table, protocol, 0, ty>> \o LE32(0)

\* an attribute: header, payload, padding up to the alignment
EncAttr(a) ==
    EncRtAttrHdr(rta_len(Len(a.data)), a.ty) \o a.data
    \o Zeros(nlmsg_align(Len(a.data)) - Len(a.data))

RECURSIVE Concat(_)
Concat(ss) == IF ss = <<>> THEN <<>> ELSE Head(ss) \o Concat(Tail(ss))

FramePayload(f) ==
    IF f.route
    THEN EncRtMsgHdr(f.family, 254, 3, 1)
         \o Concat([i \in 1..Len(f.attrs) |-> EncAttr(f.attrs[i])])
    ELSE f.raw

\* the kernel starts the next frame at the next multiple of the alignment
EncFrame(f) ==
    EncNlMsgHdr(nlmsg_length(Len(FramePayload(f))), f.ty, 2) \o FramePayload(f)
    \o Zeros(nlmsg_align(Len(FramePayload(f))) - Len(FramePayload(f)))

EncResponse(fs) == Concat([i \in 1..Len(fs) |-> EncFrame(fs[i])])

----------------------------------------------------------------------------
(* The three parsing stages (netlink.rs)                                    *)

NLMSG_DONE == 3

RTA_IIF == 3

RTA_OIF == 4

RTA_GATEWAY == 5

RtFamily_Unspec == 0

RtFamily_IPv4 == 2

RtFamily_IPv6 == 10

\* the header at the cursor, read as the struct's fields
ReadNlMsgHdr(c) ==
    [len |-> U32(Rest(c)), ty |-> U16(Drop(Rest(c), 4)),
     flags |-> U16(Drop(Rest(c), 6))]

ReadRtAttrHdr(c) == [len |-> U16(Rest(c)), ty |-> U16(Drop(Rest(c), 2))]

RECURSIVE nlm_loop_no_done(_, _)
nlm_loop_no_done(buf, acc) ==
    IF nlmsg_ok(buf)
    THEN LET nlh == ReadNlMsgHdr(buf)
             b1 == consume(buf, NlMsgHdrSize)
             n == NlMsgHdr_payload_len(nlh.len)
         IN nlm_loop_no_done(consume_bytes(b1, n),
                Append(acc, [hdr |-> nlh, payload |-> Take(Rest(b1), n),
                                off |-> buf.pos]))
    ELSE acc

parse_nlm_raw_no_done(buf) == nlm_loop_no_done(from_slice(buf), <<>>)

\* the loop of parse_nlm_raw from cursor buf with acc the frames emitted so far
RECURSIVE nlm_loop(_, _)
nlm_loop(buf, acc) ==
    IF nlmsg_ok(buf)
    THEN LET nlh == ReadNlMsgHdr(buf)
             b1 == consume(buf, NlMsgHdrSize)
             n == NlMsgHdr_payload_len(nlh.len)
         IN IF nlh.ty = NLMSG_DONE THEN acc
            ELSE nlm_loop(consume_bytes(b1, n),
                     Append(acc, [hdr |-> nlh, payload |-> Take(Rest(b1), n),
                                     off |-> buf.pos]))
    ELSE acc

parse_nlm_raw(buf) == nlm_loop(from_slice(buf), <<>>)

\* the attribute loop of parse_rtm_raw on one frame's payload
RECURSIVE rta_loop(_, _)
rta_loop(buf, attrs) ==
    IF rta_ok(buf)
    THEN LET rtah == ReadRtAttrHdr(buf)
             b1 == consume(buf, RtAttrHdrSize)
             n == RtAttrHdr_payload_len(rtah.len)
         IN rta_loop(consume_bytes(b1, n),
                Append(attrs, [hdr |-> rtah, payload |-> Take(Rest(b1), n),
                               off |-> buf.pos]))
    ELSE attrs

RtMsgScopes == {0, 200, 253, 254, 255}

RtTypes == 0..11

Fine(v) == [fault |-> "none", v |-> v]

Fault(kind, why) == [fault |-> kind, why |-> why]

\* one frame of parse_rtm_raw: the route header is read from the payload
\* whatever the frame's type and the payload's length. A payload shorter
\* than the header, or a byte that is no value of RtFamily, RtMsgScope or
\* RtType, makes the read undefined.
rtm_one(nlm) ==
    LET p == nlm.payload IN
    IF Len(p) < RtMsgHdrSize
    THEN Fault("undefined", "RtMsgHdr read past the frame's payload")
    ELSE IF \/ p[1] \notin {RtFamily_Unspec, RtFamily_IPv4, RtFamily_IPv6}
            \/ p[7] \notin RtMsgScopes
            \/ p[8] \notin RtTypes
    THEN Fault("undefined", "RtMsgHdr read with an invalid enum value")
    ELSE Fine([hdr |-> [family |-> p[1], table |-> p[5], protocol |-> p[6],
                        scope |-> p[7], ty |-> p[8]],
               attrs |-> rta_loop(consume(from_slice(p), RtMsgHdrSize), <<>>)])

RECURSIVE rtm_loop(_, _, _)
rtm_loop(nlms, i, rtmsgs) ==
    IF i > Len(nlms) THEN Fine(rtmsgs)
    ELSE LET one == rtm_one(nlms[i]) IN
         IF one.fault # "none" THEN one
         ELSE rtm_loop(nlms, i + 1, Append(rtmsgs, one.v))

parse_rtm_raw(nlms) == rtm_loop(nlms, 1, <<>>)

\* RtAttrType::to_kind
to_kind(ty) ==
    CASE ty = RTA_IIF -> "Iif"
      [] ty = RTA_OIF -> "Oif"
      [] ty = RTA_GATEWAY -> "Gateway"
      [] OTHER -> "Oth"

\* RtRespAttr::parse_from_raw_rta
parse_from_raw_rta(rth, rta) ==
    CASE to_kind(rta.hdr.ty) = "Iif" -> Fault("panic", "todo!()")
      [] to_kind(rta.hdr.ty) = "Oif" ->
            IF Len(rta.payload) >= 4
            THEN Fine([k |-> "OIf", v |-> I32(rta.payload)])
            ELSE Fault("undefined", "i32 read past the attribute's payload")
      [] to_kind(rta.hdr.ty) = "Gateway" ->
            IF rth.family = RtFamily_Unspec
            THEN Fault("panic", "unimplemented!()")
            ELSE IF rth.family = RtFamily_IPv4
            THEN IF Len(rta.payload) = 4
                 THEN Fine([k |-> "Gateway", ver |-> 4, ip |-> rta.payload])
                 ELSE Fault("panic", "try_into().unwrap() on a payload that is not 4 bytes")
            ELSE IF Len(rta.payload) = 16
                 THEN Fine([k |-> "Gateway", ver |-> 6, ip |-> rta.payload])
                 ELSE Fault("panic", "try_into().unwrap() on a payload that is not 16 bytes")
      [] OTHER -> Fine([k |-> "Oth"])

\* the attributes of one message, decoded in order
RECURSIVE attrs_loop(_, _, _, _)
attrs_loop(rth, rtas, j, attrs) ==
    IF j > Len(rtas) THEN Fine(attrs)
    ELSE LET a == parse_from_raw_rta(rth, rtas[j]) IN
         IF a.fault # "none" THEN a
         ELSE attrs_loop(rth, rtas, j + 1, Append(attrs, a.v))

RECURSIVE resp_loop(_, _, _)
resp_loop(raw, i, rtmsgs) ==
    IF i > Len(raw) THEN Fine(rtmsgs)
    ELSE LET as == attrs_loop(raw[i].hdr, raw[i].attrs, 1, <<>>) IN
         IF as.fault # "none" THEN as
         ELSE resp_loop(raw, i + 1,
                  Append(rtmsgs, [hdr |-> raw[i].hdr, attrs |-> as.v]))

parse_rtm_resp(raw_rtmsgs) == resp_loop(raw_rtmsgs, 1, <<>>)

----------------------------------------------------------------------------
(* Filter / extract: the loop that ends get_gateway_ipv4_by_ifname          *)

None == <<>>

Some(x) == <<x>>

ResGw(g) == [kind |-> "ok", gw |-> g]

\* attrs.iter().find_map(..) for one variant: the index of the first
\* attribute of kind k, 0 when there is none
FirstOf(attrs, k) ==
    IF \E j \in 1..Len(attrs) : attrs[j].k = k
    THEN CHOOSE j \in 1..Len(attrs) :
            /\ attrs[j].k = k
            /\ \A h \in 1..(j - 1) : attrs[h].k # k
    ELSE 0

RECURSIVE filter_any_oif(_, _, _)
filter_any_oif(idx, msgs, i) ==
    IF i > Len(msgs) THEN ResGw(None)
    ELSE LET attrs == msgs[i].attrs
             o == FirstOf(attrs, "OIf")
             g == FirstOf(attrs, "Gateway")
         IN IF msgs[i].hdr.family # RtFamily_IPv4 THEN filter_any_oif(idx, msgs, i + 1)
            ELSE IF o = 0 THEN filter_any_oif(idx, msgs, i + 1)
            ELSE IF g # 0
            THEN IF attrs[g].ver = 4 THEN ResGw(Some(attrs[g].ip))
                 ELSE Fault("panic", "unreachable!()")
            ELSE filter_any_oif(idx, msgs, i + 1)

RECURSIVE filter_stops_at_match(_, _, _)
filter_stops_at_match(idx, msgs, i) ==
    IF i > Len(msgs) THEN ResGw(None)
    ELSE LET attrs == msgs[i].attrs
             o == FirstOf(attrs, "OIf")
             g == FirstOf(attrs, "Gateway")
         IN IF msgs[i].hdr.family # RtFamily_IPv4
            THEN filter_stops_at_match(idx, msgs, i + 1)
            ELSE IF o = 0 THEN filter_stops_at_match(idx, msgs, i + 1)
            ELSE IF idx # attrs[o].v THEN filter_stops_at_match(idx, msgs, i + 1)
            ELSE IF g # 0
            THEN IF attrs[g].ver = 4 THEN ResGw(Some(attrs[g].ip))
                 ELSE Fault("panic", "unreachable!()")
            ELSE ResGw(None)

RECURSIVE filter_any_family(_, _, _)
filter_any_family(idx, msgs, i) ==
    IF i > Len(msgs) THEN ResGw(None)
    ELSE LET attrs == msgs[i].attrs
             o == FirstOf(attrs, "OIf")
             g == FirstOf(attrs, "Gateway")
         IN IF o = 0 THEN filter_any_family(idx, msgs, i + 1)
            ELSE IF idx # attrs[o].v THEN filter_any_family(idx, msgs, i + 1)
            ELSE IF g # 0
            THEN IF attrs[g].ver = 4 THEN ResGw(Some(attrs[g].ip))
                 ELSE Fault("panic", "unreachable!()")
            ELSE filter_any_family(idx, msgs, i + 1)

\* for RtRespMsg { hdr: rtmh, attrs } in rtmsgs_resp { .. } Ok(None), from the
\* i-th message on
RECURSIVE filter_loop(_, _, _)
filter_loop(idx, msgs, i) ==
    IF i > Len(msgs) THEN ResGw(None)
    ELSE LET attrs == msgs[i].attrs
             o == FirstOf(attrs, "OIf")
             g == FirstOf(attrs, "Gateway")
         IN IF msgs[i].hdr.family # RtFamily_IPv4 THEN filter_loop(idx, msgs, i + 1)
            ELSE IF o = 0 THEN filter_loop(idx, msgs, i + 1)
            ELSE IF idx # attrs[o].v THEN filter_loop(idx, msgs, i + 1)
            ELSE IF g # 0
            THEN IF attrs[g].ver = 4 THEN ResGw(Some(attrs[g].ip))
                 ELSE Fault("panic", "unreachable!()")
            ELSE filter_loop(idx, msgs, i + 1)

----------------------------------------------------------------------------
(* Raw I/O: the single-shot calls and the *_all loops (socket.rs)           *)

EINTR == 4

EAGAIN == 11

ECONNRESET == 104

Ok(n) == [t |-> "ok", n |-> n]

Err(e) == [t |-> "err", e |-> e]

Running == [kind |-> "running"]

ResOk(n) == [kind |-> "ok", n |-> n]

ResErr(e) == [kind |-> "err", e |-> e]

\* What the kernel answers when the script is used up: a non-blocking receive
\* has nothing more, a send takes all it is given.
Outcome(script, calls, fn) ==
    IF calls < Len(script) THEN script[calls + 1]
    ELSE IF fn \in {"recv_all", "recvfrom_all"} THEN Err(EAGAIN)
    ELSE Ok(1024)

syscall_unclamped(o, room) == IF o.t = "err" THEN Err(o.e) ELSE Ok(o.n)

\* recv / recvfrom / send / sendto on a slice of `room` bytes: a negative
\* return becomes Err(errno), anything else Ok(ret), never more than the slice
syscall(o, room) == IF o.t = "err" THEN Err(o.e) ELSE Ok(Min(o.n, room))

\* one iteration of recv_all's loop on the call's return: [cnt, res]
recv_all_eintr_breaks(cnt, ret) ==
    IF ret.t = "ok" /\ ret.n = 0 THEN [cnt |-> cnt, res |-> ResOk(cnt)]
    ELSE IF ret.t = "ok" THEN [cnt |-> cnt + ret.n, res |-> Running]
    ELSE IF ret.e = EAGAIN THEN [cnt |-> cnt, res |-> ResOk(cnt)]
    ELSE IF ret.e = EINTR THEN [cnt |-> cnt, res |-> ResOk(cnt)]
    ELSE [cnt |-> cnt, res |-> ResErr(ret.e)]

recv_all_eagain_fails(cnt, ret) ==
    IF ret.t = "ok" /\ ret.n = 0 THEN [cnt |-> cnt, res |-> ResOk(cnt)]
    ELSE IF ret.t = "ok" THEN [cnt |-> cnt + ret.n, res |-> Running]
    ELSE IF ret.e = EINTR THEN [cnt |-> cnt, res |-> Running]
    ELSE [cnt |-> cnt, res |-> ResErr(ret.e)]

recv_all_retries_errors(cnt, ret) ==
    IF ret.t = "ok" /\ ret.n = 0 THEN [cnt |-> cnt, res |-> ResOk(cnt)]
    ELSE IF ret.t = "ok" THEN [cnt |-> cnt + ret.n, res |-> Running]
    ELSE IF ret.e = EAGAIN THEN [cnt |-> cnt, res |-> ResOk(cnt)]
    ELSE [cnt |-> cnt, res |-> Running]

recv_all_zero_continues(cnt, ret) ==
    IF ret.t = "ok" THEN [cnt |-> cnt + ret.n, res |-> Running]
    ELSE IF ret.e = EAGAIN THEN [cnt |-> cnt, res |-> ResOk(cnt)]
    ELSE IF ret.e = EINTR THEN [cnt |-> cnt, res |-> Running]
    ELSE [cnt |-> cnt, res |-> ResErr(ret.e)]

recv_all_drops_count(cnt, ret) ==
    IF ret.t = "ok" /\ ret.n = 0 THEN [cnt |-> cnt, res |-> ResOk(cnt)]
    ELSE IF ret.t = "ok" THEN [cnt |-> cnt, res |-> Running]
    ELSE IF ret.e = EAGAIN THEN [cnt |-> cnt, res |-> ResOk(cnt)]
    ELSE IF ret.e = EINTR THEN [cnt |-> cnt, res |-> Running]
    ELSE [cnt |-> cnt, res |-> ResErr(ret.e)]

recv_all_iter(cnt, ret) ==
    IF ret.t = "ok" /\ ret.n = 0 THEN [cnt |-> cnt, res |-> ResOk(cnt)]
    ELSE IF ret.t = "ok" THEN [cnt |-> cnt + ret.n, res |-> Running]
    ELSE IF ret.e = EAGAIN THEN [cnt |-> cnt, res |-> ResOk(cnt)]
    ELSE IF ret.e = EINTR THEN [cnt |-> cnt, res |-> Running]
    ELSE [cnt |-> cnt, res |-> ResErr(ret.e)]

recvfrom_all_iter(cnt, ret) ==
    IF ret.t = "ok" /\ ret.n = 0 THEN [cnt |-> cnt, res |-> ResOk(cnt)]
    ELSE IF ret.t = "ok" THEN [cnt |-> cnt + ret.n, res |-> Running]
    ELSE IF ret.e = EAGAIN THEN [cnt |-> cnt, res |-> ResOk(cnt)]
    ELSE IF ret.e = EINTR THEN [cnt |-> cnt, res |-> Running]
    ELSE [cnt |-> cnt, res |-> ResErr(ret.e)]

send_all_stops_on_short(cnt, len, ret) ==
    IF ret.t = "err" THEN [cnt |-> cnt, res |-> ResErr(ret.e)]
    ELSE [cnt |-> cnt + ret.n, res |-> ResOk(cnt + ret.n)]

\* one iteration of send_all's loop: cnt += send(..)?; if cnt >= msg.len() break
send_all_iter(cnt, len, ret) ==
    IF ret.t = "err" THEN [cnt |-> cnt, res |-> ResErr(ret.e)]
    ELSE IF cnt + ret.n >= len THEN [cnt |-> cnt + ret.n, res |-> ResOk(cnt + ret.n)]
    ELSE [cnt |-> cnt + ret.n, res |-> Running]

sendto_all_iter(cnt, len, ret) ==
    IF ret.t = "err" THEN [cnt |-> cnt, res |-> ResErr(ret.e)]
    ELSE IF cnt + ret.n >= len THEN [cnt |-> cnt + ret.n, res |-> ResOk(cnt + ret.n)]
    ELSE [cnt |-> cnt + ret.n, res |-> Running]

IsRecv(fn) == fn \in {"recv_all", "recvfrom_all"}

Iter(fn, cnt, len, ret) ==
    CASE fn = "recv_all" -> recv_all_iter(cnt, ret)
      [] fn = "recvfrom_all" -> recvfrom_all_iter(cnt, ret)
      [] fn = "send_all" -> send_all_iter(cnt, len, ret)
      [] fn = "sendto_all" -> sendto_all_iter(cnt, len, ret)

\* the kernel's side of a call that moved n bytes at offset cnt: a receive
\* stores the stream's next bytes in buf[cnt..], a send takes msg[cnt..cnt+n];
\* byte i of the stream, and of the message, has the value i
Moved(fn, buf, cnt, ret) ==
    IF ret.t = "err" THEN buf
    ELSE IF IsRecv(fn)
         THEN [i \in 1..Len(buf) |->
                 IF cnt < i /\ i <= cnt + ret.n THEN i ELSE buf[i]]
         ELSE buf \o [i \in 1..ret.n |-> cnt + i]

\* one iteration of the loop of `fn`: the call on the remainder, then the match
IoCall(fn) ==
    /\ ioFn = fn
    /\ ioRes = Running
    /\ LET ret == syscall(Outcome(ioScript, Len(ioHist), fn), ioLen - ioCnt)
           nxt == Iter(fn, ioCnt, ioLen, ret)
       IN /\ ioHist' = Append(ioHist, ret)
          /\ ioBuf' = Moved(fn, ioBuf, ioCnt, ret)
          /\ ioCnt' = nxt.cnt
          /\ ioRes' = nxt.res
    /\ UNCHANGED <<ioFn, ioLen, ioScript, okVars, gwVars, saVars, beVars, sigVars>>

RecvAllCall == IoCall("recv_all")

RecvfromAllCall == IoCall("recvfrom_all")

SendAllCall == IoCall("send_all")

SendtoAllCall == IoCall("sendto_all")

\* the whole loop run from (cnt, buf) with `calls` calls made: what it returns,
\* the buffer it leaves and the calls it made
RECURSIVE RunAll(_, _, _, _, _, _)
RunAll(fn, len, script, cnt, buf, calls) ==
    LET ret == syscall(Outcome(script, calls, fn), len - cnt)
        nxt == Iter(fn, cnt, len, ret)
        b == Moved(fn, buf, cnt, ret)
    IN IF nxt.res = Running
       THEN RunAll(fn, len, script, nxt.cnt, b, calls + 1)
       ELSE [res |-> nxt.res, buf |-> b, calls |-> calls + 1]

MaxCalls == 3

MaxChunk == 2

MaxLen == 3

Outcomes == {Ok(n) : n \in 0..MaxChunk} \cup {Err(EINTR), Err(EAGAIN), Err(ECONNRESET)}

Scripts == UNION {[1..k -> Outcomes] : k \in 0..MaxCalls}

IoFns == {"recv_all", "recvfrom_all", "send_all", "sendto_all"}

IoIdle ==
    /\ ioFn = "idle" /\ ioLen = 0 /\ ioScript = <<>> /\ ioHist = <<>>
    /\ ioCnt = 0 /\ ioBuf = <<>> /\ ioRes = Running

OkIdle ==
    /\ okKind = "idle" /\ okDecl = 0 /\ okBuf = <<>> /\ okRes = <<>>
    /\ okPay = <<>>

GwIdle ==
    /\ pc = "idle" /\ trace = <<>> /\ ifindex = 0 /\ request = <<>>
    /\ resp = <<>> /\ respFrames = <<>> /\ respWf = FALSE /\ sysErr = <<>>
    /\ nlmsgs = <<>> /\ rtmsgs_raw = <<>>
    /\ rtmsgs_resp = <<>> /\ gwRes = [kind |-> "running"] /\ fdlog = <<>>

SaIdle == saV = <<>> /\ saBuf = <<>> /\ saLen = 0 /\ saRes = <<>>

BeIdle ==
    /\ beHost = "le" /\ beX = <<>> /\ beCtor = "none" /\ beMem = <<>>
    /\ beOut = <<>>

SigIdle == sigSet = <<>> /\ sigOut = <<>>

InitIO ==
    /\ ioFn \in IoFns
    /\ ioLen \in 0..MaxLen
    /\ ioScript \in Scripts
    /\ ioHist = <<>>
    /\ ioCnt = 0
    /\ ioBuf = IF IsRecv(ioFn) THEN Zeros(ioLen) ELSE <<>>
    /\ ioRes = Running
    /\ OkIdle
    /\ GwIdle
    /\ SaIdle
    /\ BeIdle
    /\ SigIdle

NextIO == RecvAllCall \/ RecvfromAllCall \/ SendAllCall \/ SendtoAllCall

SpecIO == InitIO /\ [][NextIO]_vars

\* The same loops against a transport that is free at every call: each call
\* returns any of Outcomes, for as long as the loop keeps calling.  ioScript is
\* not used; ioHist keeps the returns of the current pair of calls only, so
\* that a loop which never ends is a cycle of finitely many states.
Window(hist, ret) == IF Len(hist) >= 2 THEN <<ret>> ELSE Append(hist, ret)

IoStep(fn) ==
    /\ ioFn = fn
    /\ ioRes = Running
    /\ \E o \in Outcomes :
          LET ret == syscall(o, ioLen - ioCnt)
              nxt == Iter(fn, ioCnt, ioLen, ret)
          IN /\ ioHist' = Window(ioHist, ret)
             /\ ioBuf' = Moved(fn, ioBuf, ioCnt, ret)
             /\ ioCnt' = nxt.cnt
             /\ ioRes' = nxt.res
    /\ UNCHANGED <<ioFn, ioLen, ioScript, okVars, gwVars, saVars, beVars, sigVars>>

RecvAllStep == IoStep("recv_all")

RecvfromAllStep == IoStep("recvfrom_all")

SendAllStep == IoStep("send_all")

SendtoAllStep == IoStep("sendto_all")

InitIoLive ==
    /\ ioFn \in IoFns
    /\ ioLen \in 0..MaxLen
    /\ ioScript = <<>>
    /\ ioHist = <<>>
    /\ ioCnt = 0
    /\ ioBuf = IF IsRecv(ioFn) THEN Zeros(ioLen) ELSE <<>>
    /\ ioRes = Running
    /\ OkIdle
    /\ GwIdle
    /\ SaIdle
    /\ BeIdle
    /\ SigIdle

NextIoLive == RecvAllStep \/ RecvfromAllStep \/ SendAllStep \/ SendtoAllStep

\* the loop is straight-line code on the caller's thread: while it has not
\* returned, its next iteration is eventually executed
SpecIoLive == InitIoLive /\ [][NextIoLive]_vars /\ WF_vars(NextIoLive)

----------------------------------------------------------------------------
(* get_gateway_ipv4_by_ifname, step by step                                 *)

EINVAL == 22

ENODEV == 19

EMFILE == 24

EADDRINUSE == 98

ENOBUFS == 105

RTM_NEWROUTE == 24

RTM_GETROUTE == 26

NLMSG_NOOP == 1

RecvBufLen == 1024

\* NlMsgStdFlag::Request | NlMsgGetFlag::Dump
RequestFlags == 1 + 768

\* ---- what the kernel may answer

MaxFrames == 2

IfIndexes == {2, 3}

Gateways == {<<192, 168, 1, 1>>, <<10, 0, 0, 254>>}

Gw6 == <<254, 128, 0, 0, 0, 0, 0, 0, 0, 0, 0, 0, 0, 0, 0, 1>>

AOif(n) == [ty |-> RTA_OIF, data |-> LE32(n)]

AGw(g) == [ty |-> RTA_GATEWAY, data |-> g]

\* RTA_TABLE: an attribute the decoder does not know
ATable == [ty |-> 15, data |-> LE32(254)]

AIif == [ty |-> RTA_IIF, data |-> LE32(1)]

RouteFrame(family, attrs) ==
    [ty |-> RTM_NEWROUTE, route |-> TRUE, family |-> family, attrs |-> attrs,
     raw |-> <<>>]

DoneFrame ==
    [ty |-> NLMSG_DONE, route |-> FALSE, family |-> 0, attrs |-> <<>>,
     raw |-> LE32(0)]

NoOpFrame ==
    [ty |-> NLMSG_NOOP, route |-> FALSE, family |-> 0, attrs |-> <<>>,
     raw |-> <<>>]

\* an IPv4 route's attributes: output interface oif (0: none) and gateway gw
\* (<<>>: none), in one of the two orders
V4Attrs(shape, oif, gw) ==
    LET o == IF oif = 0 THEN <<>> ELSE <<AOif(oif)>>
        g == IF gw = <<>> THEN <<>> ELSE <<AGw(gw)>>
    IN IF shape = "og" THEN o \o g ELSE <<ATable>> \o g \o o

V4Routes ==
    {RouteFrame(RtFamily_IPv4, V4Attrs(shape, oif, gw)) :
        shape \in {"og", "tgo"}, oif \in {0} \cup IfIndexes,
        gw \in {<<>>} \cup Gateways}

\* a frame whose declared len (29) is no multiple of the alignment: a route
\* header and one stray byte
OddFrame ==
    [ty |-> RTM_NEWROUTE, route |-> FALSE, family |-> 0, attrs |-> <<>>,
     raw |-> EncRtMsgHdr(RtFamily_IPv4, 254, 3, 1) \o <<0>>]

\* an attribute of 2 bytes (declared len 6) ahead of two others
AShort == [ty |-> 15, data |-> <<1, 2>>]

\* a frame of another type (16, a link message) whose payload happens to be
\* laid out like a route's
ForeignFrame ==
    [RouteFrame(RtFamily_IPv4, <<AOif(2), AGw(<<10, 0, 0, 254>>)>>)
        EXCEPT !.ty = 16]

OtherFrames ==
    {DoneFrame, NoOpFrame, OddFrame, ForeignFrame,
     RouteFrame(RtFamily_IPv4, <<AShort, AOif(2), AGw(<<192, 168, 1, 1>>)>>),
     RouteFrame(RtFamily_IPv6, <<ATable, AGw(Gw6), AOif(2)>>),
     RouteFrame(RtFamily_IPv6, <<AOif(3)>>),
     RouteFrame(RtFamily_IPv4, <<AIif, AOif(2), AGw(<<192, 168, 1, 1>>)>>),
     RouteFrame(RtFamily_Unspec, <<AOif(2), AGw(<<192, 168, 1, 1>>)>>),
     RouteFrame(RtFamily_IPv4, <<AOif(3), AOif(2), AGw(<<192, 168, 1, 1>>)>>),
     RouteFrame(RtFamily_IPv4,
                <<AOif(2), AGw(<<10, 0, 0, 254>>), AGw(<<192, 168, 1, 1>>)>>)}

Frames == V4Routes \cup OtherFrames

Response(fs, bytes, wf) == [frames |-> fs, bytes |-> bytes, wf |-> wf]

WfResponses ==
    {Response(fs, EncResponse(fs), TRUE) :
        fs \in UNION {[1..k -> Frames] : k \in 0..MaxFrames}}

\* one response cut short at every length, and with one byte of its route
\* frame overwritten
BaseFrames ==
    <<RouteFrame(RtFamily_IPv4, <<ATable, AGw(<<192, 168, 1, 1>>), AOif(2)>>),
      DoneFrame>>

BaseBytes == EncResponse(BaseFrames)

Truncated ==
    {Response(BaseFrames, Take(BaseBytes, k), FALSE) :
        k \in 0..(Len(BaseBytes) - 1)}

Corrupted ==
    {Response(BaseFrames, [BaseBytes EXCEPT ![i] = v], FALSE) :
        i \in 1..Len(EncFrame(BaseFrames[1])), v \in {0, 3, 6, 255}}

Responses == WfResponses \cup Truncated \cup Corrupted

RecvChoices ==
    {[r |-> r, script |-> <<Ok(Len(r.bytes))>>, fails |-> FALSE] :
        r \in Responses}
    \cup {[r |-> Response(BaseFrames, BaseBytes, TRUE),
           script |-> <<Err(EINTR), Ok(NlMsgHdrSize), Ok(Len(BaseBytes))>>,
           fails |-> FALSE],
          [r |-> Response(BaseFrames, BaseBytes, TRUE),
           script |-> <<Err(ENOBUFS)>>, fails |-> TRUE],
          [r |-> Response(BaseFrames, BaseBytes, TRUE),
           script |-> <<Ok(NlMsgHdrSize), Err(ENOBUFS)>>, fails |-> TRUE]}

\* ---- descriptors: socket() hands out an OwnedFd, closed when it is dropped

FdEv(ev, fd) == [ev |-> ev, fd |-> fd]

Count(log, ev, fd) == Cardinality({i \in 1..Len(log) : log[i] = FdEv(ev, fd)})

IsOpen(log, fd) == Count(log, "socket", fd) > Count(log, "close", fd)

\* drop of an OwnedFd: close(fd), once, if the value was ever created
drop_fd(log, fd) == IF IsOpen(log, fd) THEN Append(log, FdEv("close", fd)) ELSE log

\* a borrow of the descriptor handed to a call (sock.as_fd())
as_fd(log, fd) == Append(log, FdEv("use", fd))

ScopeEnd_success_only(log, t) ==
    IF t.pc = "done" /\ t.res.kind = "ok" THEN drop_fd(log, "nl") ELSE log

\* `sock` lives to the end of get_gateway_ipv4_by_ifname: whichever way the
\* call ends at this step, sock is dropped
ScopeEnd(log, t) == IF t.pc = "done" THEN drop_fd(log, "nl") ELSE log

\* the `?` after a fallible call: an error ends the call with that error
Try_ignores(ret, next) == [pc |-> next, res |-> Running]

Try(ret, next) ==
    IF ret.t = "err" THEN [pc |-> "done", res |-> ResErr(ret.e)]
    ELSE [pc |-> next, res |-> Running]

\* get_ifindex: ifreq(name)?, socket(..)?, ioctl(..)?, Ok(ifr_ifindex)
get_ifindex(name_ok, sock, ioc) ==
    IF ~name_ok THEN Err(EINVAL)
    ELSE IF sock.t = "err" THEN sock
    ELSE ioc

\* the descriptor events of get_ifindex: `fd` is created once the name is
\* accepted and socket() succeeds, lent to ioctl, dropped when get_ifindex returns
get_ifindex_fds(log, name_ok, sock) ==
    IF name_ok /\ sock.t = "ok"
    THEN drop_fd(as_fd(Append(log, FdEv("socket", "ifx")), "ifx"), "ifx")
    ELSE log

build_request_len_without_attr(idx) ==
    LET oif_attr_len == rta_len(4)
        nlh_len == nlmsg_length(RtMsgHdrSize)
    IN EncNlMsgHdr(nlh_len, RTM_GETROUTE, RequestFlags)
       \o EncRtMsgHdr(RtFamily_IPv4, 254, 0, 0)
       \o EncRtAttrHdr(oif_attr_len, RTA_OIF)
       \o LE32(idx)

\* the request for interface index idx, as written through the cursor
build_request(idx) ==
    LET oif_attr_len == rta_len(4)
        nlh_len == nlmsg_length(RtMsgHdrSize + oif_attr_len)
    IN EncNlMsgHdr(nlh_len, RTM_GETROUTE, RequestFlags)
       \o EncRtMsgHdr(RtFamily_IPv4, 254, 0, 0)
       \o EncRtAttrHdr(oif_attr_len, RTA_OIF)
       \o LE32(idx)

\* what a *_all helper hands back to its caller
AllRet(fn, len, script) ==
    LET r == RunAll(fn, len, script, 0, <<>>, 0).res IN
    IF r.kind = "err" THEN Err(r.e) ELSE Ok(r.n)

Step(name, t) ==
    /\ trace' = Append(trace, name)
    /\ pc' = t.pc
    /\ gwRes' = t.res

Failed(name, ret) ==
    IF ret.t = "err" THEN <<[step |-> name, e |-> ret.e]>> ELSE sysErr

ResolveInterfaceIndex ==
    /\ pc = "resolve"
    /\ \E name_ok \in BOOLEAN, sock \in {Ok(3), Err(EMFILE)},
          ioc \in {Err(ENODEV)} \cup {Ok(n) : n \in IfIndexes} :
          LET ret == get_ifindex(name_ok, sock, ioc) IN
          /\ Step("resolve", Try(ret, "open"))
          /\ sysErr' = IF ~name_ok THEN <<[step |-> "resolve", e |-> EINVAL]>>
                       ELSE IF sock.t = "err"
                       THEN <<[step |-> "resolve", e |-> sock.e]>>
                       ELSE IF ioc.t = "err"
                       THEN <<[step |-> "resolve", e |-> ioc.e]>>
                       ELSE sysErr
          /\ ifindex' = IF ret.t = "ok" THEN ret.n ELSE ifindex
          /\ fdlog' = ScopeEnd(get_ifindex_fds(fdlog, name_ok, sock),
                               Try(ret, "open"))
    /\ UNCHANGED <<request, resp, respFrames, respWf, nlmsgs, rtmsgs_raw,
                   rtmsgs_resp, okVars, ioVars, saVars, beVars, sigVars>>

OpenSocket ==
    /\ pc = "open"
    /\ \E ret \in {Ok(3), Err(EMFILE)} :
          /\ Step("open", Try(ret, "bind"))
          /\ sysErr' = Failed("open", ret)
          /\ fdlog' = ScopeEnd(IF ret.t = "ok"
                               THEN Append(fdlog, FdEv("socket", "nl"))
                               ELSE fdlog, Try(ret, "bind"))
    /\ UNCHANGED <<ifindex, request, resp, respFrames, respWf, nlmsgs,
                   rtmsgs_raw, rtmsgs_resp, okVars, ioVars, saVars, beVars, sigVars>>

BindToKernel ==
    /\ pc = "bind"
    /\ \E ret \in {Ok(0), Err(EADDRINUSE)} :
          /\ Step("bind", Try(ret, "build"))
          /\ sysErr' = Failed("bind", ret)
          /\ fdlog' = ScopeEnd(as_fd(fdlog, "nl"), Try(ret, "build"))
    /\ UNCHANGED <<ifindex, request, resp, respFrames, respWf, nlmsgs,
                   rtmsgs_raw, rtmsgs_resp, okVars, ioVars, saVars, beVars, sigVars>>

BuildRequest ==
    /\ pc = "build"
    /\ request' = build_request(ifindex)
    /\ Step("build", [pc |-> "send", res |-> Running])
    /\ fdlog' = ScopeEnd(fdlog, [pc |-> "send", res |-> Running])
    /\ UNCHANGED <<ifindex, resp, respFrames, respWf, sysErr, nlmsgs,
                   rtmsgs_raw, rtmsgs_resp, okVars, ioVars, saVars, beVars, sigVars>>

SendScripts == {<<>>, <<Ok(20)>>, <<Err(ENOBUFS)>>, <<Ok(20), Err(ECONNRESET)>>}

Send ==
    /\ pc = "send"
    /\ \E script \in SendScripts :
          LET ret == AllRet("send_all", Len(request), script) IN
          /\ Step("send", Try(ret, "recv"))
          /\ fdlog' = ScopeEnd(as_fd(fdlog, "nl"), Try(ret, "recv"))
          /\ sysErr' = IF \E i \in 1..Len(script) : script[i].t = "err"
                       THEN <<[step |-> "send",
                               e |-> script[Len(script)].e]>>
                       ELSE sysErr
    /\ UNCHANGED <<ifindex, request, resp, respFrames, respWf, nlmsgs,
                   rtmsgs_raw, rtmsgs_resp, okVars, ioVars, saVars, beVars, sigVars>>

\* buf.fill(0); recv_all(sock, &mut buf, ..)?; &buf[..rev_len]
Receive ==
    /\ pc = "recv"
    /\ \E c \in RecvChoices :
          LET ret == AllRet("recv_all", RecvBufLen, c.script) IN
          /\ Step("recv", Try(ret, "parse_nlm"))
          /\ fdlog' = ScopeEnd(as_fd(fdlog, "nl"), Try(ret, "parse_nlm"))
          /\ sysErr' = IF c.fails
                       THEN <<[step |-> "recv", e |-> ENOBUFS]>>
                       ELSE sysErr
          /\ resp' = IF ret.t = "ok" THEN Take(c.r.bytes, ret.n) ELSE resp
          /\ respFrames' = IF ret.t = "ok" THEN c.r.frames ELSE respFrames
          /\ respWf' = (ret.t = "ok" /\ c.r.wf /\ ret.n = Len(c.r.bytes))
    /\ UNCHANGED <<ifindex, request, nlmsgs, rtmsgs_raw, rtmsgs_resp,
                   okVars, ioVars, saVars, beVars, sigVars>>

ParseFrames ==
    /\ pc = "parse_nlm"
    /\ nlmsgs' = parse_nlm_raw(resp)
    /\ Step("parse_nlm", [pc |-> "parse_rtm", res |-> Running])
    /\ fdlog' = ScopeEnd(fdlog, [pc |-> "parse_rtm", res |-> Running])
    /\ UNCHANGED <<ifindex, request, resp, respFrames, respWf, sysErr,
                   rtmsgs_raw, rtmsgs_resp, okVars, ioVars, saVars, beVars, sigVars>>

\* a stage that panics or is undefined ends the call there
Staged(r, next) ==
    IF r.fault = "none" THEN [pc |-> next, res |-> Running]
    ELSE [pc |-> "done", res |-> [kind |-> r.fault, why |-> r.why]]

ParseRouteMessages ==
    /\ pc = "parse_rtm"
    /\ LET r == parse_rtm_raw(nlmsgs) IN
          /\ rtmsgs_raw' = IF r.fault = "none" THEN r.v ELSE rtmsgs_raw
          /\ Step("parse_rtm", Staged(r, "parse_resp"))
          /\ fdlog' = ScopeEnd(fdlog, Staged(r, "parse_resp"))
    /\ UNCHANGED <<ifindex, request, resp, respFrames, respWf, sysErr,
                   nlmsgs, rtmsgs_resp, okVars, ioVars, saVars, beVars, sigVars>>

DecodeAttributes ==
    /\ pc = "parse_resp"
    /\ LET r == parse_rtm_resp(rtmsgs_raw) IN
          /\ rtmsgs_resp' = IF r.fault = "none" THEN r.v ELSE rtmsgs_resp
          /\ Step("parse_resp", Staged(r, "filter"))
          /\ fdlog' = ScopeEnd(fdlog, Staged(r, "filter"))
    /\ UNCHANGED <<ifindex, request, resp, respFrames, respWf, sysErr,
                   nlmsgs, rtmsgs_raw, okVars, ioVars, saVars, beVars, sigVars>>

FilterExtract ==
    /\ pc = "filter"
    /\ LET r == filter_loop(ifindex, rtmsgs_resp, 1)
           t == [pc |-> "done",
                 res |-> IF "kind" \in DOMAIN r THEN r
                         ELSE [kind |-> r.fault, why |-> r.why]]
       IN /\ Step("filter", t)
          /\ fdlog' = ScopeEnd(fdlog, t)
    /\ UNCHANGED <<ifindex, request, resp, respFrames, respWf, sysErr,
                   nlmsgs, rtmsgs_raw, rtmsgs_resp, okVars, ioVars, saVars, beVars, sigVars>>

InitGw ==
    /\ pc = "resolve" /\ trace = <<>> /\ ifindex = 0 /\ request = <<>>
    /\ resp = <<>> /\ respFrames = <<>> /\ respWf = FALSE /\ sysErr = <<>>
    /\ nlmsgs = <<>> /\ rtmsgs_raw = <<>>
    /\ rtmsgs_resp = <<>> /\ gwRes = Running /\ fdlog = <<>>
    /\ OkIdle
    /\ IoIdle
    /\ SaIdle
    /\ BeIdle
    /\ SigIdle

NextGw ==
    \/ ResolveInterfaceIndex
    \/ OpenSocket
    \/ BindToKernel
    \/ BuildRequest
    \/ Send
    \/ Receive
    \/ ParseFrames
    \/ ParseRouteMessages
    \/ DecodeAttributes
    \/ FilterExtract

SpecGw == InitGw /\ [][NextGw]_vars

----------------------------------------------------------------------------
(* Claims on the gateway resolution, under SpecGw                           *)

Ran(step) == \E i \in 1..Len(trace) : trace[i] = step

\* the frames the kernel sent ahead of its first Done frame
Live(fs) ==
    IF \E i \in 1..Len(fs) : fs[i].ty = NLMSG_DONE
    THEN SubSeq(fs, 1, (CHOOSE i \in 1..Len(fs) :
                          /\ fs[i].ty = NLMSG_DONE
                          /\ \A h \in 1..(i - 1) : fs[h].ty # NLMSG_DONE) - 1)
    ELSE fs

HasTy(attrs, ty) == \E j \in 1..Len(attrs) : attrs[j].ty = ty

FirstTy(attrs, ty) ==
    CHOOSE j \in 1..Len(attrs) :
        attrs[j].ty = ty /\ \A h \in 1..(j - 1) : attrs[h].ty # ty

\* a sent frame that is an IPv4 route out of interface idx with a gateway
SentMatch(f, idx) ==
    /\ f.route
    /\ f.family = RtFamily_IPv4
    /\ HasTy(f.attrs, RTA_OIF)
    /\ f.attrs[FirstTy(f.attrs, RTA_OIF)].data = LE32(idx)
    /\ HasTy(f.attrs, RTA_GATEWAY)

SentExpected(fs, idx) ==
    IF \E i \in 1..Len(fs) : SentMatch(fs[i], idx)
    THEN LET i == CHOOSE i \in 1..Len(fs) :
                    /\ SentMatch(fs[i], idx)
                    /\ \A h \in 1..(i - 1) : ~SentMatch(fs[h], idx)
         IN Some(fs[i].attrs[FirstTy(fs[i].attrs, RTA_GATEWAY)].data)
    ELSE None

\* frames the decoder has a case for: routes of family IPv4 or IPv6 with no
\* input-interface attribute
Plain(fs) ==
    \A i \in 1..Len(fs) :
        /\ fs[i].route
        /\ fs[i].family \in {RtFamily_IPv4, RtFamily_IPv6}
        /\ ~HasTy(fs[i].attrs, RTA_IIF)

\* a parsed message that is IPv4, out of interface idx, with a gateway
ParsedMatch(m, idx) ==
    /\ m.hdr.family = RtFamily_IPv4
    /\ \E j \in 1..Len(m.attrs) :
          /\ m.attrs[j].k = "OIf"
          /\ m.attrs[j].v = idx
          /\ \A h \in 1..(j - 1) : m.attrs[h].k # "OIf"
    /\ \E j \in 1..Len(m.attrs) : m.attrs[j].k = "Gateway"

ParsedExpected(msgs, idx) ==
    IF \E i \in 1..Len(msgs) : ParsedMatch(msgs[i], idx)
    THEN LET i == CHOOSE i \in 1..Len(msgs) :
                    /\ ParsedMatch(msgs[i], idx)
                    /\ \A h \in 1..(i - 1) : ~ParsedMatch(msgs[h], idx)
             j == CHOOSE j \in 1..Len(msgs[i].attrs) :
                    /\ msgs[i].attrs[j].k = "Gateway"
                    /\ \A h \in 1..(j - 1) : msgs[i].attrs[h].k # "Gateway"
         IN Some(msgs[i].attrs[j].ip)
    ELSE None

\* C1: a gateway the call returns comes from a parsed route message whose
\* family is IPv4 and whose output-interface attribute is the requested
\* index, and, when the response is the kernel's frames unaltered, from a
\* frame the kernel sent as an IPv4 route out of that interface; it never
\* comes from another interface's route.
C1_OnlyRequestedInterface ==
    (gwRes.kind = "ok" /\ gwRes.gw # None) =>
        /\ \E i \in 1..Len(rtmsgs_resp) :
              /\ ParsedMatch(rtmsgs_resp[i], ifindex)
              /\ \E j \in 1..Len(rtmsgs_resp[i].attrs) :
                    /\ rtmsgs_resp[i].attrs[j].k = "Gateway"
                    /\ rtmsgs_resp[i].attrs[j].ip = gwRes.gw[1]
        /\ respWf =>
              \E i \in 1..Len(respFrames) :
                  /\ SentMatch(respFrames[i], ifindex)
                  /\ \E j \in 1..Len(respFrames[i].attrs) :
                        /\ respFrames[i].attrs[j].ty = RTA_GATEWAY
                        /\ respFrames[i].attrs[j].data = gwRes.gw[1]

\* one message for N = 2 with gateway G1, one for M = 3 with G2: Some(G1)
C1_Witness ==
    /\ pc = "done"
    /\ ifindex = 2
    /\ respWf
    /\ respFrames =
         <<RouteFrame(RtFamily_IPv4, V4Attrs("tgo", 3, <<10, 0, 0, 254>>)),
           RouteFrame(RtFamily_IPv4, V4Attrs("tgo", 2, <<192, 168, 1, 1>>))>>
    /\ gwRes = ResGw(Some(<<192, 168, 1, 1>>))

\* C2: once the filter has run, the result is Some(G) with G the first
\* gateway attribute of the first parsed message (in response order) that is
\* IPv4, has the requested output interface and carries a gateway, and it is
\* None when there is no such message; for a response of plain route frames
\* received whole the call gets that far, and G is the gateway the kernel put
\* in the first such frame ahead of its Done frame.
C2_FirstGatewayOfFirstMatch ==
    /\ Ran("filter") =>
          /\ gwRes = ResGw(ParsedExpected(rtmsgs_resp, ifindex))
          /\ respWf => gwRes = ResGw(SentExpected(Live(respFrames), ifindex))
    /\ (pc = "done" /\ respWf /\ Plain(Live(respFrames))) => Ran("filter")

\* the first matching message has no gateway, the second has one
C2_Witness ==
    /\ pc = "done"
    /\ ifindex = 3
    /\ respWf
    /\ respFrames =
         <<RouteFrame(RtFamily_IPv4, V4Attrs("og", 3, <<>>)),
           RouteFrame(RtFamily_IPv4, V4Attrs("og", 3, <<10, 0, 0, 254>>))>>
    /\ gwRes = ResGw(Some(<<10, 0, 0, 254>>))

\* C3: the frame stage emits no Done frame and nothing at or after the first
\* Done frame: from the kernel's frames received whole it emits exactly those
\* ahead of the first Done, and a response that starts with Done gives no
\* frame, no route message and the result None.
C3_StopsAtDone ==
    Ran("parse_nlm") =>
        /\ \A i \in 1..Len(nlmsgs) : nlmsgs[i].hdr.ty # NLMSG_DONE
        /\ respWf =>
              /\ Len(nlmsgs) = Len(Live(respFrames))
              /\ \A i \in 1..Len(nlmsgs) :
                    /\ nlmsgs[i].hdr.ty = respFrames[i].ty
                    /\ nlmsgs[i].payload = FramePayload(respFrames[i])
        /\ (respWf /\ respFrames # <<>> /\ respFrames[1].ty = NLMSG_DONE) =>
              /\ nlmsgs = <<>>
              /\ rtmsgs_raw = <<>>
              /\ pc = "done" => gwRes = ResGw(None)

C3_Witness ==
    /\ pc = "done"
    /\ ifindex = 2
    /\ respWf
    /\ respFrames =
         <<DoneFrame,
           RouteFrame(RtFamily_IPv4, V4Attrs("og", 2, <<192, 168, 1, 1>>))>>
    /\ gwRes = ResGw(None)

Order ==
    <<"resolve", "open", "bind", "build", "send", "recv", "parse_nlm",
      "parse_rtm", "parse_resp", "filter">>

\* C8: the steps run in the order resolve, open, bind, build, send, receive,
\* parse, filter, each at most once; when the call of resolve, open, bind,
\* send or receive fails, that step is the last one run and the call returns
\* its errno; the call returns an error in no other case.
C8_StepOrderAndFailFast ==
    /\ Len(trace) <= Len(Order)
    /\ \A i \in 1..Len(trace) : trace[i] = Order[i]
    /\ sysErr # <<>> =>
          /\ pc = "done"
          /\ gwRes = ResErr(sysErr[1].e)
          /\ trace[Len(trace)] = sysErr[1].step
    /\ gwRes.kind = "err" => sysErr # <<>>

C8_Witness ==
    /\ sysErr = <<[step |-> "bind", e |-> EADDRINUSE]>>
    /\ gwRes = ResErr(EADDRINUSE)
    /\ trace = <<"resolve", "open", "bind">>

\* C9: whatever bytes the receive left in the buffer, the call does not
\* abort: parsing ends early and the call still returns a result.
C9_ParseNeverAborts == gwRes.kind # "panic"

\* the uses of descriptor fd all fall while it is open, and it is closed at
\* most once
UsedWhileOpen(log, fd) ==
    /\ \A i \in 1..Len(log) :
          log[i] = FdEv("use", fd) => IsOpen(SubSeq(log, 1, i - 1), fd)
    /\ \A i \in 1..Len(log) :
          log[i] = FdEv("close", fd) => IsOpen(SubSeq(log, 1, i - 1), fd)

\* C17: once the call has returned (a gateway, None or an error), the
\* Netlink socket it opened is closed, on every path; the socket is only
\* ever used between its creation and its close; the helper socket of
\* get_ifindex is closed by the time get_ifindex has returned.
C17_SocketsClosed ==
    /\ (pc = "done" /\ gwRes.kind \in {"ok", "err"}) => ~IsOpen(fdlog, "nl")
    /\ (pc = "done" /\ gwRes.kind \in {"ok", "err"} /\ Ran("bind")) =>
          Count(fdlog, "close", "nl") = 1
    /\ UsedWhileOpen(fdlog, "nl")
    /\ UsedWhileOpen(fdlog, "ifx")
    /\ ~IsOpen(fdlog, "ifx")
    /\ Ran("open") => Count(fdlog, "close", "ifx") = 1

\* the receive fails after the socket was opened, bound and written to
C17_Witness ==
    /\ pc = "done"
    /\ gwRes = ResErr(ENOBUFS)
    /\ sysErr = <<[step |-> "recv", e |-> ENOBUFS]>>
    /\ fdlog[Len(fdlog)] = FdEv("close", "nl")
    /\ Count(fdlog, "use", "nl") = 3

\* C18: the request built for index N is 36 bytes: a Netlink header with
\* len 36, type 26, flags 0x301; a route header of family IPv4; an attribute
\* header {len 8, type 4}; N as a little-endian 32-bit value. The bytes
\* handed to send_all are those 36.
C18_RequestBytes ==
    Ran("build") =>
        /\ Len(request) = 36
        /\ SubSeq(request, 1, 4) = <<36, 0, 0, 0>>
        /\ SubSeq(request, 5, 6) = <<26, 0>>
        /\ SubSeq(request, 7, 8) = <<1, 3>>
        /\ request[17] = 2
        /\ SubSeq(request, 29, 32) = <<8, 0, 4, 0>>
        /\ SubSeq(request, 33, 36) = <<ifindex, 0, 0, 0>>

C18_Witness ==
    /\ Ran("send")
    /\ ifindex = 3
    /\ SubSeq(request, 33, 36) = <<3, 0, 0, 0>>
    /\ gwRes.kind = "running"

\* the frames parse_rtm_raw reads a route header from: every emitted frame up
\* to and including the first one the read is undefined on
RouteHeaderReads(nlms) ==
    {i \in 1..Len(nlms) : \A h \in 1..(i - 1) : rtm_one(nlms[h]).fault = "none"}

\* C19: every read of the frame stage and of the route stage lies inside the
\* bytes being parsed: each emitted frame's header and declared len lie
\* inside the received bytes, each frame the route stage reads a route
\* header from has a payload of at least the 12 bytes of that header, and
\* each emitted attribute's header and declared len lie inside its frame's
\* payload.
C19_ReadsInsideBuffer ==
    /\ \A i \in 1..Len(nlmsgs) :
          /\ nlmsgs[i].off + NlMsgHdrSize <= Len(resp)
          /\ nlmsgs[i].off + nlmsgs[i].hdr.len <= Len(resp)
    /\ Ran("parse_rtm") =>
          \A i \in RouteHeaderReads(nlmsgs) :
              Len(nlmsgs[i].payload) >= RtMsgHdrSize
    /\ \A i \in 1..Len(rtmsgs_raw) : \A j \in 1..Len(rtmsgs_raw[i].attrs) :
          LET a == rtmsgs_raw[i].attrs[j] IN
          /\ a.off + RtAttrHdrSize <= Len(nlmsgs[i].payload)
          /\ a.off + a.hdr.len <= Len(nlmsgs[i].payload)

Align4(n) == ((n + 3) \div 4) * 4

\* where the cursor stands after the emitted items: start, or the last
\* item's offset plus its declared len rounded up
After(items, start) ==
    IF items = <<>> THEN start
    ELSE items[Len(items)].off + Align4(items[Len(items)].hdr.len)

\* each item starts on a multiple of 4, the first at start, each next one
\* at the previous one's offset plus its declared len rounded up to 4
AlignedChain(items, start) ==
    \A i \in 1..Len(items) :
        /\ items[i].off % 4 = 0
        /\ items[i].off = IF i = 1 THEN start
                          ELSE items[i - 1].off + Align4(items[i - 1].hdr.len)

\* C20: each emitted frame advances the cursor by its declared len rounded
\* up to 4 and each emitted attribute by its declared len rounded up to 4,
\* so headers are read at multiples of 4 and items do not overlap; the frame
\* loop ends at a Done frame or where nlmsg_ok fails, the attribute loop
\* where rta_ok fails.
C20_AlignedAdvance ==
    /\ AlignedChain(nlmsgs, 0)
    /\ Ran("parse_nlm") =>
          LET c == [data |-> resp, pos |-> After(nlmsgs, 0)] IN
          \/ ~nlmsg_ok(c)
          \/ ReadNlMsgHdr(c).ty = NLMSG_DONE
    /\ \A i \in 1..Len(rtmsgs_raw) :
          /\ AlignedChain(rtmsgs_raw[i].attrs, RtMsgHdrSize)
          /\ ~rta_ok([data |-> nlmsgs[i].payload,
                      pos |-> After(rtmsgs_raw[i].attrs, RtMsgHdrSize)])

\* a frame of declared len 29 followed by a frame at offset 32, and an
\* attribute of declared len 6 followed by an attribute 8 bytes on
C20_Witness ==
    /\ Len(nlmsgs) = 2
    /\ nlmsgs[1].hdr.len = 29
    /\ nlmsgs[2].off = 32
    /\ Len(rtmsgs_raw) = 2
    /\ Len(rtmsgs_raw[2].attrs) = 3
    /\ rtmsgs_raw[2].attrs[1].hdr.len = 6
    /\ rtmsgs_raw[2].attrs[2].off = rtmsgs_raw[2].attrs[1].off + 8

\* raw messages the decode stage is specified on: family IPv4 or IPv6, every
\* output-interface payload at least 4 bytes, every gateway payload 4 bytes
\* under IPv4 and 16 under IPv6
Decodable(raw) ==
    \A i \in 1..Len(raw) :
        /\ raw[i].hdr.family \in {RtFamily_IPv4, RtFamily_IPv6}
        /\ \A j \in 1..Len(raw[i].attrs) :
              LET a == raw[i].attrs[j] IN
              /\ a.hdr.ty = 4 => Len(a.payload) >= 4
              /\ a.hdr.ty = 5 =>
                    Len(a.payload) = (IF raw[i].hdr.family = RtFamily_IPv4
                                      THEN 4 ELSE 16)

\* what the claim has the decode stage make of raw attribute a under family
DecodedAs(family, a) ==
    CASE a.hdr.ty = 4 -> [k |-> "OIf", v |-> I32(a.payload)]
      [] a.hdr.ty = 5 ->
            [k |-> "Gateway", ver |-> (IF family = RtFamily_IPv4 THEN 4 ELSE 6),
             ip |-> a.payload]
      [] OTHER -> [k |-> "Oth"]

\* C21: the decode stage turns every raw attribute into OIf (type 4, the
\* payload as a native 32-bit integer), Gateway (type 5, 4 bytes under an
\* IPv4 route header, 16 under an IPv6 one) or Oth (any other type, the
\* input interface, 3, included).
C21_AttributeDecode ==
    (Ran("parse_resp") /\ Decodable(rtmsgs_raw)) =>
        /\ Len(rtmsgs_resp) = Len(rtmsgs_raw)
        /\ \A i \in 1..Len(rtmsgs_raw) :
              /\ Len(rtmsgs_resp[i].attrs) = Len(rtmsgs_raw[i].attrs)
              /\ \A j \in 1..Len(rtmsgs_raw[i].attrs) :
                    rtmsgs_resp[i].attrs[j] =
                        DecodedAs(rtmsgs_raw[i].hdr.family, rtmsgs_raw[i].attrs[j])

\* the Netlink types that carry a route: RTM_NEWROUTE, RTM_DELROUTE, RTM_GETROUTE
RouteTypes == {24, 25, 26}

\* C27: the route stage makes a route message only of frames whose type is
\* a route message; a frame of any other type is not interpreted as a route
\* and gives the result no gateway.
C27_RouteFramesOnly ==
    /\ \A i \in 1..Len(rtmsgs_raw) : nlmsgs[i].hdr.ty \in RouteTypes
    /\ (gwRes.kind = "ok" /\ gwRes.gw # None) =>
          \E i \in 1..Len(rtmsgs_resp) :
              /\ nlmsgs[i].hdr.ty \in RouteTypes
              /\ ParsedMatch(rtmsgs_resp[i], ifindex)

\* C28: the unreachable!() branch of the filter loop is never taken: in a
\* decoded message whose family is IPv4 every Gateway attribute holds an
\* IPv4 address, and messages of another family are skipped before their
\* gateway is looked at.
C28_UnreachableBranch ==
    /\ ~(gwRes.kind = "panic" /\ gwRes.why = "unreachable!()")
    /\ \A i \in 1..Len(rtmsgs_resp) :
          rtmsgs_resp[i].hdr.family = RtFamily_IPv4 =>
              \A j \in 1..Len(rtmsgs_resp[i].attrs) :
                  rtmsgs_resp[i].attrs[j].k = "Gateway" =>
                      /\ rtmsgs_resp[i].attrs[j].ver = 4
                      /\ Len(rtmsgs_resp[i].attrs[j].ip) = 4

\* an IPv6 route out of the requested interface, with an IPv6 gateway, ahead
\* of the IPv4 route the gateway is taken from
C28_Witness ==
    /\ pc = "done"
    /\ Len(rtmsgs_resp) = 2
    /\ rtmsgs_resp[1].hdr.family = RtFamily_IPv6
    /\ \E j \in 1..Len(rtmsgs_resp[1].attrs) :
          rtmsgs_resp[1].attrs[j].k = "Gateway" /\ rtmsgs_resp[1].attrs[j].ver = 6
    /\ \E j \in 1..Len(rtmsgs_resp[1].attrs) :
          rtmsgs_resp[1].attrs[j].k = "OIf" /\ rtmsgs_resp[1].attrs[j].v = ifindex
    /\ gwRes = ResGw(Some(<<192, 168, 1, 1>>))

----------------------------------------------------------------------------
(* Claims on the *_all helpers, under SpecIO                                *)

IoDone == ioRes # Running

StripEintr(script) == SelectSeq(script, LAMBDA o : o # Err(EINTR))

RECURSIVE SumOk(_)
SumOk(h) ==
    IF h = <<>> THEN 0
    ELSE (IF Head(h).t = "ok" THEN Head(h).n ELSE 0) + SumOk(Tail(h))

Eintrs(h) == Len(SelectSeq(h, LAMBDA r : r = Err(EINTR)))

HardErr(r) == r.t = "err" /\ r.e \notin {EINTR, EAGAIN}

\* C4: an interrupted receive call is retried with the running count and the
\* buffer untouched (the count is always the sum of the bytes the calls
\* returned), and when recv_all / recvfrom_all returns, its result and its
\* buffer are those of the run against the same transport with the
\* interruptions taken out, each interruption costing exactly one more call.
C4_RecvAllEintrTransparent ==
    IsRecv(ioFn) =>
        /\ ioCnt = SumOk(ioHist)
        /\ IoDone =>
            LET ref == RunAll(ioFn, ioLen, StripEintr(ioScript), 0, Zeros(ioLen), 0)
            IN /\ ioRes = ref.res
               /\ ioBuf = ref.buf
               /\ Len(ioHist) = ref.calls + Eintrs(ioHist)

C4_Witness ==
    /\ ioFn = "recv_all"
    /\ Len(ioHist) >= 2
    /\ ioHist[1] = Err(EINTR)
    /\ ioHist[2] = Ok(2)
    /\ ioRes = ResOk(2)

\* C5: send_all whose first send call is interrupted (EINTR) and whose later
\* calls all succeed returns Ok(msg.len()), having retried the call once.
C5_SendAllRetriesEintr ==
    ( /\ ioFn = "send_all"
      /\ IoDone
      /\ Len(ioScript) >= 1
      /\ ioScript[1] = Err(EINTR)
      /\ \A i \in 2..Len(ioScript) : ioScript[i].t = "ok" /\ ioScript[i].n > 0 )
    => (ioRes = ResOk(ioLen) /\ Eintrs(ioHist) = 1 /\ Len(ioHist) >= 2)

\* C6: when a receive call of recv_all reports would-block (EAGAIN) after k
\* bytes came in through the earlier calls, recv_all returns Ok(k) with those
\* k bytes in the buffer.
C6_RecvAllWouldBlock ==
    ( /\ ioFn = "recv_all"
      /\ Len(ioHist) > 0
      /\ ioHist[Len(ioHist)] = Err(EAGAIN) )
    => /\ ioRes = ResOk(SumOk(ioHist))
       /\ \A i \in 1..SumOk(ioHist) : ioBuf[i] = i

C6_Witness ==
    /\ ioFn = "recv_all"
    /\ Len(ioHist) = 3
    /\ ioHist[3] = Err(EAGAIN)
    /\ ioRes = ResOk(2)
    /\ ioLen = 3

\* C7: in each of the four helpers an error of the underlying call other than
\* EINTR / EAGAIN is the last call the helper makes and is what it returns.
C7_HardErrorPropagates ==
    \A i \in 1..Len(ioHist) :
        HardErr(ioHist[i]) =>
            /\ i = Len(ioHist)
            /\ ioRes = ResErr(ioHist[i].e)

C7_Witness ==
    /\ ioFn = "recv_all"
    /\ ioCnt > 0
    /\ ioRes = ResErr(ECONNRESET)

\* C22: a receive call of recv_all or recvfrom_all that returns 0 bytes is
\* the last call made: the loop stops there and the helper returns Ok of the
\* bytes accumulated so far.
C22_ZeroBytesEndsReceive ==
    IsRecv(ioFn) =>
        \A i \in 1..Len(ioHist) :
            ioHist[i] = Ok(0) =>
                /\ i = Len(ioHist)
                /\ ioRes = ResOk(SumOk(ioHist))

\* two bytes, then end of stream, with the transport holding a further outcome
C22_Witness ==
    /\ ioFn = "recvfrom_all"
    /\ ioLen = 3
    /\ ioHist = <<Ok(2), Ok(0)>>
    /\ Len(ioScript) = 3
    /\ ioRes = ResOk(2)

\* C23: when send_all or sendto_all returns Ok(n), n is msg.len() and the
\* calls took every byte of msg once, in order; a send call that takes less
\* than the remainder is followed by a call on what is left.
C23_SendAllComplete ==
    ~IsRecv(ioFn) /\ ioFn # "idle" =>
        /\ ioRes.kind = "ok" =>
              /\ ioRes.n = ioLen
              /\ ioBuf = [i \in 1..ioLen |-> i]
        /\ \A i \in 1..Len(ioHist) :
              (ioHist[i].t = "ok" /\ SumOk(SubSeq(ioHist, 1, i)) < ioLen) =>
                  (i < Len(ioHist) \/ ioRes = Running)

C23_Witness ==
    /\ ioFn = "send_all"
    /\ ioLen = 3
    /\ ioHist = <<Ok(1), Ok(2)>>
    /\ ioBuf = <<1, 2, 3>>
    /\ ioRes = ResOk(3)

\* C29: in recv_all and recvfrom_all the running count stays between 0 and
\* buf.len(), so does the count returned; a receive call issued once the
\* buffer is full is on an empty slice, and its 0-byte result ends the loop.
C29_CountWithinBuffer ==
    IsRecv(ioFn) =>
        /\ 0 <= ioCnt /\ ioCnt <= ioLen
        /\ Len(ioBuf) = ioLen
        /\ ioRes.kind = "ok" => ioRes.n <= ioLen
        /\ \A i \in 1..Len(ioHist) :
              ioHist[i].t = "ok" => SumOk(SubSeq(ioHist, 1, i)) <= ioLen
        /\ \A i \in 1..Len(ioHist) :
              (SumOk(SubSeq(ioHist, 1, i - 1)) = ioLen /\ ioHist[i].t = "ok") =>
                  /\ ioHist[i] = Ok(0)
                  /\ i = Len(ioHist)
                  /\ ioRes = ResOk(ioLen)

\* the buffer is full after one call; the kernel has more, the next call is
\* on an empty slice
C29_Witness ==
    /\ ioFn = "recv_all"
    /\ ioLen = 2
    /\ ioHist = <<Ok(2), Ok(0)>>
    /\ ioScript[2] = Ok(2)
    /\ ioRes = ResOk(2)

\* C24: send_all (and sendto_all) terminates for every message: with the
\* empty message one send call is made and the result is Ok(0); with a
\* non-empty message the loop does not go on forever, whatever the send calls
\* return, 0 bytes included.
C24_SendAllTerminates ==
    (~IsRecv(ioFn)) =>
        /\ <>IoDone
        /\ [](ioLen = 0 /\ ioRes.kind = "ok" =>
                 Len(ioHist) = 1 /\ ioRes = ResOk(0))

LastRet == IF ioHist = <<>> THEN Ok(0) ELSE ioHist[Len(ioHist)]

\* C25: recv_all (and recvfrom_all) on a finite buffer terminates unless the
\* transport returns EINTR without end: an iteration whose call was not
\* interrupted ends the loop or strictly increases cnt, and cnt never passes
\* buf.len().
C25_RecvAllTerminates ==
    /\ (IsRecv(ioFn) /\ []<>(IoDone \/ LastRet # Err(EINTR))) => <>IoDone
    /\ [][(IsRecv(ioFn) /\ ioHist'[Len(ioHist')] # Err(EINTR)) =>
             (ioRes' # Running \/ ioCnt' > ioCnt)]_vars
    /\ [](IsRecv(ioFn) => ioCnt <= ioLen)

\* two bytes in two calls, an interruption, then end of stream
C25_Witness ==
    /\ ioFn = "recv_all"
    /\ ioScript = <<>>
    /\ ioLen = 3
    /\ ioHist = <<Err(EINTR), Ok(0)>>
    /\ ioCnt = 2
    /\ ioRes = ResOk(2)

----------------------------------------------------------------------------
(* The validity predicates on one buffer, under SpecOk                      *)

MaxDecl == 20

MaxRem == 20

\* the len field is a u32 in NlMsgHdr and a u16 in RtAttrHdr
DeclLens(kind) ==
    (0..MaxDecl) \cup (IF kind = "nl" THEN {272, 65556, 2147483647}
                       ELSE {272, 4100, 65535})

InitOk ==
    /\ okKind \in {"nl", "rta"}
    /\ okDecl \in DeclLens(okKind)
    /\ \E rem \in 0..MaxRem, pre \in {0, 4} :
          okBuf = [data |-> [i \in 1..pre |-> 255]
                            \o Take((IF okKind = "nl"
                                     THEN EncNlMsgHdr(okDecl, 24, 2)
                                     ELSE EncRtAttrHdr(okDecl, 5))
                                    \o [i \in 1..MaxRem |-> 7], rem),
                    pos |-> pre]
    /\ okRes = <<>>
    /\ okPay = <<>>
    /\ IoIdle
    /\ GwIdle
    /\ SaIdle
    /\ BeIdle
    /\ SigIdle

NlmsgOkCall ==
    /\ okKind = "nl"
    /\ okRes = <<>>
    /\ okRes' = <<nlmsg_ok(okBuf)>>
    /\ UNCHANGED <<okKind, okDecl, okBuf, okPay, ioVars, gwVars, saVars, beVars, sigVars>>

RtaOkCall ==
    /\ okKind = "rta"
    /\ okRes = <<>>
    /\ okRes' = <<rta_ok(okBuf)>>
    /\ UNCHANGED <<okKind, okDecl, okBuf, okPay, ioVars, gwVars, saVars, beVars, sigVars>>

\* NlMsgHdr::payload_len on a header whose len field is okDecl
NlMsgHdrPayloadLen ==
    /\ okKind = "nl"
    /\ okPay = <<>>
    /\ okPay' = <<NlMsgHdr_payload_len(okDecl)>>
    /\ UNCHANGED <<okKind, okDecl, okBuf, okRes, ioVars, gwVars, saVars, beVars, sigVars>>

\* RtAttrHdr::payload_len on a header whose len field is okDecl
RtAttrHdrPayloadLen ==
    /\ okKind = "rta"
    /\ okPay = <<>>
    /\ okPay' = <<RtAttrHdr_payload_len(okDecl)>>
    /\ UNCHANGED <<okKind, okDecl, okBuf, okRes, ioVars, gwVars, saVars, beVars, sigVars>>

NextOk == NlmsgOkCall \/ RtaOkCall \/ NlMsgHdrPayloadLen \/ RtAttrHdrPayloadLen

SpecOk == InitOk /\ [][NextOk]_vars

OkRem == Len(okBuf.data) - okBuf.pos

\* C10: nlmsg_ok (header 16 bytes) and rta_ok (header 4 bytes) answer true
\* exactly when the remaining buffer holds a whole header and the len the
\* header declares is at least the header size and at most the remaining
\* length.
C10_OkPredicates ==
    okRes # <<>> =>
        okRes[1] = ( /\ OkRem >= (IF okKind = "nl" THEN 16 ELSE 4)
                  /\ okDecl >= (IF okKind = "nl" THEN 16 ELSE 4)
                  /\ okDecl <= OkRem )

C10_Witness ==
    /\ okKind = "nl"
    /\ okRes = <<FALSE>>
    /\ OkRem >= 16
    /\ okDecl > OkRem

\* C26: NlMsgHdr::payload_len (header 16 bytes) and RtAttrHdr::payload_len
\* (header 4 bytes) return len - header size when len is at least the header
\* size and 0 when it is smaller, for every len; the result is never negative.
C26_PayloadLen ==
    okPay # <<>> =>
        /\ okPay[1] >= 0
        /\ okKind = "nl" =>
              okPay[1] = (IF okDecl >= 16 THEN okDecl - 16 ELSE 0)
        /\ okKind = "rta" =>
              okPay[1] = (IF okDecl >= 4 THEN okDecl - 4 ELSE 0)

\* a Netlink header one byte short of its own size
C26_Witness ==
    /\ okKind = "nl"
    /\ okDecl = 15
    /\ okPay = <<0>>

----------------------------------------------------------------------------
(* Network-order scalars U16Be / U32Be / U64Be (be.rs)                      *)
(* An integer is held as its digits base 256, most significant first; the   *)
(* bytes it occupies in memory depend on the host's byte order.             *)

Reverse(s) == [i \in 1..Len(s) |-> s[Len(s) + 1 - i]]

\* uN::swap_bytes
swap_bytes(x) == Reverse(x)

\* uN::to_be: the identity on a big-endian host, a byte swap on a little-endian one
int_to_be(host, x) == IF host = "be" THEN x ELSE swap_bytes(x)

\* uN::from_be
int_from_be(host, x) == IF host = "be" THEN x ELSE swap_bytes(x)

\* uN::from_le
int_from_le(host, x) == IF host = "le" THEN x ELSE swap_bytes(x)

\* uN::to_ne_bytes: the integer's bytes in memory, lowest address first
int_to_ne_bytes(host, x) == IF host = "be" THEN x ELSE Reverse(x)

\* the integer whose bytes in memory are b
int_from_ne_bytes(host, b) == IF host = "be" THEN b ELSE Reverse(b)

to_ne_unswapped(host, self0) == self0

from_be_unnormalised(host, x) == int_to_be(host, x)

\* Self(x.to_be()): the value of the field self.0
from_ne(host, x) == int_to_be(host, x)

new(host, x) == from_ne(host, x)

from_le(host, x) == from_ne(host, int_from_le(host, x))

from_be(host, x) == from_ne(host, int_from_be(host, x))

to_ne(host, self0) == int_from_be(host, self0)

to_ne_bytes(host, self0) == int_to_ne_bytes(host, to_ne(host, self0))

\* size_of the storage types u16, u32, u64
Widths == {2, 4, 8}

ByteVals == {18, 171}

Scalars == UNION {[1..w -> ByteVals] : w \in Widths}

Construct(name, self0) ==
    /\ beCtor = "none"
    /\ beCtor' = name
    /\ beMem' = int_to_ne_bytes(beHost, self0)
    /\ UNCHANGED <<beHost, beX, beOut, okVars, ioVars, gwVars, saVars, sigVars>>

New == Construct("new", new(beHost, beX))

FromNe == Construct("from_ne", from_ne(beHost, beX))

FromLe == Construct("from_le", from_le(beHost, beX))

FromBe == Construct("from_be", from_be(beHost, beX))

ToNe ==
    /\ beCtor # "none"
    /\ beOut' = <<[op |-> "to_ne",
                   v |-> to_ne(beHost, int_from_ne_bytes(beHost, beMem))]>>
    /\ UNCHANGED <<beHost, beX, beCtor, beMem, okVars, ioVars, gwVars, saVars, sigVars>>

ToNeBytes ==
    /\ beCtor # "none"
    /\ beOut' = <<[op |-> "to_ne_bytes",
                   v |-> to_ne_bytes(beHost, int_from_ne_bytes(beHost, beMem))]>>
    /\ UNCHANGED <<beHost, beX, beCtor, beMem, okVars, ioVars, gwVars, saVars, sigVars>>

InitBe ==
    /\ beHost \in {"le", "be"}
    /\ beX \in Scalars
    /\ beCtor = "none"
    /\ beMem = <<>>
    /\ beOut = <<>>
    /\ OkIdle
    /\ IoIdle
    /\ GwIdle
    /\ SaIdle
    /\ SigIdle

NextBe == New \/ FromNe \/ FromLe \/ FromBe \/ ToNe \/ ToNeBytes

SpecBe == InitBe /\ [][NextBe]_vars

----------------------------------------------------------------------------
(* Claims on the network-order scalars, under SpecBe                        *)

\* the big-endian encoding of the integer x: its digits, most significant first
BigEndian(x) == x

\* the integer the constructor's argument denotes: the argument itself for
\* new and from_ne, the integer whose little-endian (big-endian) encoding is
\* the argument's bytes in memory for from_le (from_be)
Denoted(ctor, host, x) ==
    LET mem == IF host = "le" THEN Reverse(x) ELSE x IN
    CASE ctor \in {"new", "from_ne"} -> x
      [] ctor = "from_le" -> Reverse(mem)
      [] ctor = "from_be" -> mem

\* C14: for every x of each width, on a little-endian and on a big-endian
\* host, from_ne(x).to_ne() is x.
C14_NeRoundTrip ==
    (beCtor = "from_ne" /\ beOut # <<>> /\ beOut[1].op = "to_ne") =>
        beOut[1].v = beX

C14_Witness ==
    /\ beHost = "le"
    /\ beCtor = "from_ne"
    /\ beX = <<18, 171, 171, 171>>
    /\ beOut = <<[op |-> "to_ne", v |-> <<18, 171, 171, 171>>]>>

\* C15: for every x of each width, on either host, from_ne(x).to_ne_bytes()
\* is the big-endian encoding of x.
C15_NeBytesBigEndian ==
    (beCtor = "from_ne" /\ beOut # <<>> /\ beOut[1].op = "to_ne_bytes") =>
        beOut[1].v = BigEndian(beX)

\* C16: after new, from_ne, from_le or from_be the bytes stored are the
\* big-endian encoding of the integer the argument denotes; from_be(x) stores
\* the very bits of x; from_le(x).to_ne() is the native integer whose
\* little-endian encoding is x.
C16_StoredBigEndian ==
    /\ beCtor # "none" => beMem = BigEndian(Denoted(beCtor, beHost, beX))
    /\ beCtor = "from_be" =>
          beMem = (IF beHost = "le" THEN Reverse(beX) ELSE beX)
    /\ (beCtor = "from_le" /\ beOut # <<>> /\ beOut[1].op = "to_ne") =>
          beOut[1].v = Denoted("from_le", beHost, beX)

\* from_be on a little-endian host, then to_ne, on a value that is no palindrome
C16_Witness ==
    /\ beHost = "le"
    /\ beCtor = "from_be"
    /\ beX = <<18, 171>>
    /\ beMem = <<171, 18>>
    /\ beOut = <<[op |-> "to_ne", v |-> <<171, 18>>]>>

----------------------------------------------------------------------------
(* Socket addresses (socket.rs): #[repr(C)] layout, as_ptr / address_len,   *)
(* from_raw_parts. A field's value is the bytes it occupies in memory.      *)

Fld(name, size, align) == [name |-> name, size |-> size, align |-> align]

AlignUp(n, a) == ((n + a - 1) \div a) * a

\* #[repr(C)]: each field at the next multiple of its alignment
RECURSIVE OffsetOf(_, _)
OffsetOf(fields, i) ==
    IF i = 1 THEN 0
    ELSE AlignUp(OffsetOf(fields, i - 1) + fields[i - 1].size, fields[i].align)

MaxAlign(fields) ==
    CHOOSE a \in {fields[i].align : i \in 1..Len(fields)} :
        \A i \in 1..Len(fields) : fields[i].align <= a

\* size_of: the end of the last field, rounded up to the struct's alignment
size_of(fields) ==
    AlignUp(OffsetOf(fields, Len(fields)) + fields[Len(fields)].size,
            MaxAlign(fields))

\* SaFamily is #[repr(u16)], U16Be and U32Be wrap u16 and u32
SockAddrIn ==
    <<Fld("family", 2, 2), Fld("port", 2, 2), Fld("addr", 4, 4),
      Fld("padding", 8, 1)>>

SockAddrIn6 ==
    <<Fld("family", 2, 2), Fld("port", 2, 2), Fld("flowinfo", 4, 4),
      Fld("addr", 16, 1), Fld("scope_id", 4, 4)>>

SockAddrUn == <<Fld("family", 2, 2), Fld("path", 108, 1)>>

\* EthType and HType are 16-bit scalars, PktType is #[repr(u8)]
SockAddrLL ==
    <<Fld("family", 2, 2), Fld("protocol", 2, 2), Fld("ifindex", 4, 4),
      Fld("hatype", 2, 2), Fld("pkttype", 1, 1), Fld("halen", 1, 1),
      Fld("addr", 8, 1)>>

\* SaNlFamily is #[repr(i32)], pid_t is i32
SockAddrNL ==
    <<Fld("family", 4, 4), Fld("_padding", 2, 2), Fld("portid", 4, 4),
      Fld("groups", 4, 4)>>

\* the payload struct of each variant of SockAddr
StructOf(variant) ==
    CASE variant = "Inet" -> SockAddrIn
      [] variant = "Inet6" -> SockAddrIn6
      [] variant = "Unix" -> SockAddrUn
      [] variant = "Packet" -> SockAddrLL
      [] variant = "Netlink" -> SockAddrNL

SaFamily_UnSpec == 0

SaFamily_Local == 1

SaFamily_Inet == 2

SaFamily_Inet6 == 10

SaFamily_Packet == 17

SaNlFamily_NetlinkRoute == 16

PktTypes == 0..7

FieldIndex(fields, name) == CHOOSE i \in 1..Len(fields) : fields[i].name = name

FieldNames(fields) == {fields[i].name : i \in 1..Len(fields)}

\* the bytes of the struct in memory: each field at its offset, zero between
StructBytes(fields, f) ==
    [b \in 1..size_of(fields) |->
        IF \E i \in 1..Len(fields) :
              OffsetOf(fields, i) < b /\ b <= OffsetOf(fields, i) + fields[i].size
        THEN LET i == CHOOSE i \in 1..Len(fields) :
                        /\ OffsetOf(fields, i) < b
                        /\ b <= OffsetOf(fields, i) + fields[i].size
             IN f[fields[i].name][b - OffsetOf(fields, i)]
        ELSE 0]

\* core::ptr::read(raw as *const Self): the fields, from the bytes at raw
ptr_read(fields, buf) ==
    [name \in FieldNames(fields) |->
        LET i == FieldIndex(fields, name) IN
        SubSeq(buf, OffsetOf(fields, i) + 1, OffsetOf(fields, i) + fields[i].size)]

SockAddr(variant, f) == [variant |-> variant, f |-> f]

as_ptr(v) == StructBytes(StructOf(v.variant), v.f)

address_len(v) == size_of(StructOf(v.variant))

\* SaFamily::from_bits on the u16 at the start of the buffer
SaFamily_from_bits(n) ==
    IF n \in {SaFamily_UnSpec, SaFamily_Local, SaFamily_Inet, SaFamily_Inet6,
              SaFamily_Packet}
    THEN Fine(n)
    ELSE Fault("undefined", "SaFamily::from_bits on a value that is no variant")

\* SockAddrX::from_raw: a read of size_of::<SockAddrX>() bytes
from_raw(variant, buf) ==
    LET fields == StructOf(variant) IN
    IF Len(buf) < size_of(fields)
    THEN Fault("undefined", "struct read past the bytes behind the pointer")
    ELSE IF variant = "Packet"
            /\ ptr_read(fields, buf)["pkttype"][1] \notin PktTypes
    THEN Fault("undefined", "PktType read with an invalid enum value")
    ELSE Fine(SockAddr(variant, ptr_read(fields, buf)))

SockAddrUn_from_raw_parts(buf, addrlen) ==
    IF ~(addrlen > 2) THEN Fault("panic", "assert!(addrlen > size_of::<sa_family_t>())")
    ELSE IF addrlen - 2 # 108
    THEN Fault("panic", "copy_from_slice: source and destination lengths differ")
    ELSE IF Len(buf) < addrlen
    THEN Fault("undefined", "slice past the bytes behind the pointer")
    ELSE Fine(SockAddr("Unix", [family |-> SubSeq(buf, 1, 2),
                                 path |-> SubSeq(buf, 3, addrlen)]))

\* SockAddr::from_raw_parts
from_raw_parts(buf, addrlen) ==
    IF ~(addrlen >= 2) THEN Fault("panic", "assert!(addrlen >= 2)")
    ELSE IF Len(buf) < 2
    THEN Fault("undefined", "sa_family read past the bytes behind the pointer")
    ELSE LET family == SaFamily_from_bits(U16(buf)) IN
         IF family.fault # "none" THEN family
         ELSE CASE family.v = SaFamily_UnSpec ->
                     Fault("panic", "unsupported type sockaddr")
                [] family.v = SaFamily_Local ->
                     IF addrlen # size_of(SockAddrLL)
                     THEN Fault("panic", "assert_eq!(addrlen, size_of::<SockAddrLL>())")
                     ELSE from_raw("Packet", buf)
                [] family.v = SaFamily_Inet ->
                     IF addrlen # size_of(SockAddrIn)
                     THEN Fault("panic", "assert_eq!(addrlen, size_of::<SockAddrIn>())")
                     ELSE from_raw("Inet", buf)
                [] family.v = SaFamily_Inet6 ->
                     IF addrlen # size_of(SockAddrIn6)
                     THEN Fault("panic", "assert_eq!(addrlen, size_of::<SockAddrIn6>())")
                     ELSE from_raw("Inet6", buf)
                [] family.v = SaFamily_Packet ->
                     SockAddrUn_from_raw_parts(buf, addrlen)

\* ---- the addresses a program builds, and the buffers a kernel call fills

Ports == {<<0, 80>>, <<31, 144>>}

ValidInet ==
    {SockAddr("Inet", [family |-> LE16(SaFamily_Inet), port |-> p, addr |-> a,
                       padding |-> Zeros(8)]) :
        p \in Ports, a \in {<<127, 0, 0, 1>>, <<10, 0, 0, 2>>}}

ValidInet6 ==
    {SockAddr("Inet6", [family |-> LE16(SaFamily_Inet6), port |-> p,
                        flowinfo |-> Zeros(4), addr |-> Gw6,
                        scope_id |-> LE32(sc)]) :
        p \in Ports, sc \in {0, 2}}

ValidUnix ==
    {SockAddr("Unix", [family |-> LE16(SaFamily_Local), path |-> path]) :
        path \in {Zeros(108), <<47, 116, 109, 112, 47, 115>> \o Zeros(102)}}

ValidPacket ==
    {SockAddr("Packet", [family |-> LE16(SaFamily_Packet), protocol |-> <<8, 0>>,
                         ifindex |-> LE32(n), hatype |-> <<0, 1>>,
                         pkttype |-> <<pt>>, halen |-> <<6>>,
                         addr |-> <<2, 0, 0, 0, 0, 1, 0, 0>>]) :
        n \in IfIndexes, pt \in {0, 3}}

ValidNetlink ==
    {SockAddr("Netlink", [family |-> LE32(SaNlFamily_NetlinkRoute),
                          _padding |-> LE16(0), portid |-> LE32(pid),
                          groups |-> LE32(g)]) :
        pid \in {0, 1234}, g \in {0, 1}}

SockAddrs ==
    ValidInet \cup ValidInet6 \cup ValidUnix \cup ValidPacket \cup ValidNetlink

RawFamilies == {0, 1, 2, 10, 16, 17, 99}

RawLens == {1, 2, 12, 16, 20, 28, 110}

\* what a kernel call left behind the pointer: len bytes, the family first
RawBuf(family, len) == Take(LE16(family) \o Zeros(len), len)

\* the program hands its own address over: as_ptr() and address_len()
AsPtrAddressLen ==
    /\ saV # <<>>
    /\ saBuf = <<>>
    /\ saBuf' = as_ptr(saV[1])
    /\ saLen' = address_len(saV[1])
    /\ UNCHANGED <<saV, saRes, okVars, ioVars, gwVars, beVars, sigVars>>

\* a kernel call fills the buffer and the length
KernelFills ==
    /\ saV = <<>>
    /\ saBuf = <<>>
    /\ \E family \in RawFamilies, len \in RawLens :
          /\ saBuf' = RawBuf(family, len)
          /\ saLen' = len
    /\ UNCHANGED <<saV, saRes, okVars, ioVars, gwVars, beVars, sigVars>>

FromRawParts ==
    /\ saBuf # <<>>
    /\ saRes = <<>>
    /\ saRes' = <<from_raw_parts(saBuf, saLen)>>
    /\ UNCHANGED <<saV, saBuf, saLen, okVars, ioVars, gwVars, beVars, sigVars>>

InitSa ==
    /\ saV \in {<<>>} \cup {<<v>> : v \in SockAddrs}
    /\ saBuf = <<>>
    /\ saLen = 0
    /\ saRes = <<>>
    /\ OkIdle
    /\ IoIdle
    /\ GwIdle
    /\ BeIdle
    /\ SigIdle

NextSa == AsPtrAddressLen \/ KernelFills \/ FromRawParts

SpecSa == InitSa /\ [][NextSa]_vars

----------------------------------------------------------------------------
(* Claims on the socket addresses, under SpecSa                             *)

\* the same variant with the same value in every field
SameSockAddr(a, b) ==
    /\ a.variant = b.variant
    /\ \A name \in FieldNames(StructOf(a.variant)) : a.f[name] = b.f[name]

\* C11: for every valid address v of any of the five variants,
\* from_raw_parts(v.as_ptr(), v.address_len()) returns v's variant with v's
\* field values.
C11_RawRoundTrip ==
    (saV # <<>> /\ saRes # <<>>) =>
        /\ saRes[1].fault = "none"
        /\ SameSockAddr(saRes[1].v, saV[1])

\* the kernel's structure sizes on x86_64 Linux, and sockaddr_nl's fields
KernelSize ==
    [Inet |-> 16, Inet6 |-> 28, Unix |-> 110, Packet |-> 20, Netlink |-> 12]

KernelSockaddrNl ==
    <<[name |-> "family", off |-> 0, size |-> 2],
      [name |-> "_padding", off |-> 2, size |-> 2],
      [name |-> "portid", off |-> 4, size |-> 4],
      [name |-> "groups", off |-> 8, size |-> 4]>>

\* the variant the family tag at the start of the buffer stands for
VariantOfTag(tag) ==
    CASE tag = 1 -> "Unix"
      [] tag = 2 -> "Inet"
      [] tag = 10 -> "Inet6"
      [] tag = 17 -> "Packet"
      [] OTHER -> "none"

\* C12: from_raw_parts returns the variant of the family tag at the start of
\* the buffer (1 Unix, 2 Inet, 10 Inet6, 17 link-layer) when the length is
\* that family's structure size, and panics when the tag is not recognized
\* or the length is another one. (A tag that is no value of SaFamily makes
\* the call undefined, which a panic is one outcome of.)
C12_FamilyDispatch ==
    (saRes # <<>> /\ saLen >= 2) =>
        LET variant == VariantOfTag(U16(saBuf)) IN
        IF variant # "none" /\ saLen = KernelSize[variant]
        THEN saRes[1].fault = "none" /\ saRes[1].v.variant = variant
        ELSE saRes[1].fault \in {"panic", "undefined"}

\* C13: each payload struct has the size of the kernel's structure, which is
\* what address_len() returns, and SockAddrNL has family at 0 (2 bytes), pad
\* at 2, port id at 4, groups at 8.
C13_KernelLayout ==
    (saV # <<>> /\ saBuf # <<>>) =>
        LET variant == saV[1].variant
            fields == StructOf(variant)
        IN /\ size_of(fields) = KernelSize[variant]
           /\ Len(saBuf) = KernelSize[variant]
           /\ saLen = KernelSize[variant]
           /\ variant = "Netlink" =>
                 \A k \in 1..Len(KernelSockaddrNl) :
                    LET i == FieldIndex(fields, KernelSockaddrNl[k].name) IN
                    /\ OffsetOf(fields, i) = KernelSockaddrNl[k].off
                    /\ fields[i].size = KernelSockaddrNl[k].size

----------------------------------------------------------------------------
(* SignalSet (signal.rs): a sigset_t, held as its bytes                     *)

\* size_of::<sigset_t>() with glibc on x86_64
SigsetSize == 128

MaxSig == 8

\* the Signal values inserted: SIGHUP = 1 .. (all of 1..31 are Signal values)
Signals == 1..MaxSig

Pow2(k) == IF k = 0 THEN 1 ELSE IF k = 1 THEN 2 ELSE IF k = 2 THEN 4
           ELSE IF k = 3 THEN 8 ELSE IF k = 4 THEN 16 ELSE IF k = 5 THEN 32
           ELSE IF k = 6 THEN 64 ELSE 128

\* libc::sigemptyset
sigemptyset == Zeros(SigsetSize)

\* libc::sigismember: bit sig - 1 of the set
sigismember(set, sig) ==
    (set[((sig - 1) \div 8) + 1] \div Pow2((sig - 1) % 8)) % 2 = 1

\* libc::sigaddset: sets bit sig - 1
sigaddset(set, sig) ==
    IF sigismember(set, sig) THEN set
    ELSE [set EXCEPT ![((sig - 1) \div 8) + 1] = @ + Pow2((sig - 1) % 8)]

\* SignalSet::empty
empty == sigemptyset

\* SignalSet::is_empty: the sigset_t transmuted to [u8; size_of::<sigset_t>()],
\* then the array's is_empty(), which is len() == 0
is_empty(set) == Len(set) = 0

\* SignalSet::insert
insert(set, sig) == sigaddset(set, sig)

InitSig ==
    /\ sigSet = empty
    /\ sigOut = <<>>
    /\ OkIdle
    /\ IoIdle
    /\ GwIdle
    /\ SaIdle
    /\ BeIdle

Insert ==
    /\ \E sig \in Signals : sigSet' = insert(sigSet, sig)
    /\ sigOut' = <<>>
    /\ UNCHANGED <<okVars, ioVars, gwVars, saVars, beVars>>

IsEmpty ==
    /\ sigOut = <<>>
    /\ sigOut' = <<is_empty(sigSet)>>
    /\ UNCHANGED <<sigSet, okVars, ioVars, gwVars, saVars, beVars>>

NextSig == Insert \/ IsEmpty

SpecSig == InitSig /\ [][NextSig]_vars

Members(set) == {sig \in 1..(8 * Len(set)) : sigismember(set, sig)}

\* C30: SignalSet::is_empty returns true exactly when the set has no member:
\* true for SignalSet::empty(), false after any insert.
C30_IsEmpty ==
    sigOut # <<>> => (sigOut[1] = (Members(sigSet) = {}))

============================================================================
